---- MODULE Spec2Model ----
(***************************************************************************)
(* Signaling server of the WebRTC/HLS relay: the socket handlers of        *)
(* server/socket-server.ts and the HLSRecorderV2 class of                  *)
(* server/ffmpeg-recorder.ts, as a state machine.                          *)
(*                                                                         *)
(* Node runs the handlers on one event loop.  A handler runs atomically    *)
(* up to its next `await`; the continuation after the await is a separate  *)
(* step that may be preceded by any other handler or callback.  Each       *)
(* action below is one such run-to-suspension piece of a handler.  A       *)
(* socket may send a request while earlier requests of its own are still   *)
(* suspended: each request starts a handler of its own.                    *)
(***************************************************************************)
EXTENDS Integers, Sequences, FiniteSets, Bags, TLC

\* ------------------------------------------------------------------ bounds
\* Engine ids and heap objects are drawn from pools.  An id or object that
\* nothing refers to any more is given out again (ids are opaque, and an
\* unreachable object is garbage), so a pool bounds what is alive at one
\* time, not what a run creates.
MaxProducers  == 2   \* producer ids alive at one time
MaxConsumers  == 2   \* consumer ids alive at one time
MaxStreamObjs == 2   \* stream-group objects alive at one time
MaxRecorders  == 2   \* HLSRecorderV2 objects alive at one time
MaxTrace      == 4   \* finished handlers a logged run keeps
MaxSegments   == 2   \* path segments of a playback request
MaxInFlight   == 2   \* handlers of one socket suspended at one time
MaxReads      == 1   \* read streams of playback requests open at one time

Clients == {"a", "b"}            \* socket ids
Keys    == {"s1", "s2"}          \* stream ids sent by clients
Kinds   == {"audio", "video"}
Roles   == {"producer", "consumer"}
CapsChoices == {{"video"}}      \* receive capabilities a client may declare (by kind)

VARIABLES
  routerReady,   \* `router` is defined (initMediasoup has completed)
  conn,          \* per socket: "new", "connected", "disconnected"
  rtpCaps,       \* socket.rtpCapabilities: <<>> when unset, else <<set of kinds>>
  transports,    \* Map `${id}-${role}` -> transport: TRUE when the key is present
  producers,     \* Map socket id -> {producer, producerId}, in insertion order
  consumers,     \* Map socket id -> {consumer, consumer_Id}, in insertion order
  activeStreams, \* Map streamId -> stream object (heap index), 0 when absent
  streamOrder,   \* the keys of activeStreams in the order of their insertion
  streamObjs,    \* heap of {streamers, recorder} objects
  hlsRecorders,  \* Map streamId -> recorder (heap index), 0 when absent
  recs,          \* heap of HLSRecorderV2 objects with their subprocess, tap and timer
  task,          \* per socket: the bag of its handlers suspended at an await
  last,          \* the handler piece that ran in the last step
  replies,       \* acknowledgement callbacks invoked by the last step, in order
  events,        \* events emitted by the last step, in order
  history,       \* of a logged run: the handlers finished and the streamLive events
                 \* emitted since its start
  engine,        \* of a watched run: the engine objects the handlers have created
                 \* and not closed
  reads          \* the read streams the playback handler has piped into a response
                 \* and that have not yet opened their file

vars == <<routerReady, conn, rtpCaps, transports, producers, consumers,
          activeStreams, streamOrder, streamObjs, hlsRecorders, recs, task, last,
          replies, events, history, engine, reads>>

registryVars == <<transports, producers, consumers>>
streamVars == <<activeStreams, streamOrder, streamObjs, hlsRecorders, recs>>

\* ------------------------------------------------------------- Map helpers
\* A JS Map keyed by socket id, kept as the sequence of its entries in
\* insertion order; every entry is a record with a field `sock` (the key).
MapHas(m, k) == \E i \in 1..Len(m) : m[i].sock = k

MapIndex(m, k) == CHOOSE i \in 1..Len(m) : m[i].sock = k

MapGet(m, k) == m[MapIndex(m, k)]

MapDelete(m, k) == SelectSeq(m, LAMBDA e : e.sock # k)

MapSet(m, e) ==
  IF MapHas(m, e.sock)
    THEN [m EXCEPT ![MapIndex(m, e.sock)] = e]
    ELSE Append(m, e)

\* ------------------------------------------------------------------- tasks
\* A handler suspended at an await: the handler, the await it is at, and the
\* locals it holds (a: role, kind or streamId; n: a producer or consumer id,
\* or of a continuation already due its place among those of the turn; obj:
\* the `stream` object; rec: the `recorder` object).
Suspended(op, pc, a, n, obj, rec) ==
  [op |-> op, pc |-> pc, a |-> a, n |-> n, obj |-> obj, rec |-> rec]

\* no handler of the socket is suspended
Idle == EmptyBag

\* the suspended handlers of socket c, and of every socket of tasks
InFlight(c) == BagToSet(task[c])

\* The client of socket c awaits the acknowledgement of a request of one of
\* the kinds ops before it sends the next of them: none is unanswered.  (It
\* opens its transports and produces in one awaited chain.  It sends
\* connect, consume and resume requests at any time, and start and stop
\* requests too: the button that starts a broadcast stays active until the
\* start is acknowledged.)
Waits(c, ops) == \A t \in InFlight(c) : t.op \notin ops

AllInFlight(tasks) == UNION {BagToSet(tasks[c]) : c \in Clients}

\* the model follows at most MaxInFlight suspended handlers per socket
Room(c) == BagCardinality(task[c]) < MaxInFlight

\* the tasks once handler t of socket c has suspended, has run to its end,
\* has gone on to its next await as t2
Begun(c, t) == [task EXCEPT ![c] = @ (+) SetToBag({t})]

Ended(c, t) == [task EXCEPT ![c] = @ (-) SetToBag({t})]

Moved(c, t, t2) == [task EXCEPT ![c] = (@ (-) SetToBag({t})) (+) SetToBag({t2})]

\* A continuation is a microtask.  When `await recorder.startRecording(...)`
\* settles (pc "returned" or "threw"), the handler that awaits it resumes one
\* microtask later; when a handler awaits a promise that is rejected already
\* (pc "rejected"), its catch block runs one microtask later.  Until every
\* such continuation has run, no timer, subprocess event, connection or
\* message of another read is taken up.
MacrotaskTurn ==
  \A t \in AllInFlight(task) : t.pc \notin {"returned", "threw", "rejected"}

\* socket.io queues the listener of each packet with process.nextTick, and
\* Node empties the nextTick queue before it runs a continuation: the
\* packets socket c sent in one read are all taken up before the catch block
\* of a handler of c that awaits a rejected promise runs, and none is taken
\* up once the first of these catch blocks (n = 0) has run.
MessageTurn(c) ==
  \A d \in Clients : \A t \in InFlight(d) :
    /\ t.pc \notin {"returned", "threw"}
    /\ t.pc = "rejected" =>
         d = c /\ \E u \in InFlight(c) : u.pc = "rejected" /\ u.n = 0

\* An answer of the engine arrives in a turn of its own, and so does not
\* arrive while a catch block of the turn of a read is still to run.
EngineTurn == \A t \in AllInFlight(task) : t.pc # "rejected"

\* What ran in a step: the socket, the handler, whether the handler has run
\* to its end, and the stream keys whose member set it removed the socket from.
NoOp == [sock |-> "", op |-> "init", fin |-> FALSE, left |-> {}]

Ran(c, op, fin) == [sock |-> c, op |-> op, fin |-> fin, left |-> {}]

Left(c, op, ks) == [sock |-> c, op |-> op, fin |-> TRUE, left |-> ks]

Reply(c, op, err, data) == [to |-> c, op |-> op, err |-> err, data |-> data]

Connected == {c \in Clients : conn[c] = "connected"}

\* io.emit: every connected socket, the sender included
OthersAndSelf(c) == Connected

\* socket.broadcast.emit: every connected socket but the sender
Others(c) == Connected \ {c}

\* --------------------------------------------------------------- recorder
\* Fields of HLSRecorderV2 (ffmpegProcess, isRecording, transport, consumer,
\* streamKey) and the state of what they refer to:
\*   proc   : "none", "running", "killed" (SIGTERM sent, close event pending), "closed"
\*   tap    : "none", "open", "connected", "closed"       (the PlainTransport)
\*   cons   : "none", "paused", "resumed", "closed"       (the tap consumer)
\*   source : the producer the tap consumer consumes, 0 when there is none
\*   timer  : "none", "pending", "connecting", "resuming", "done"
NewRecorder(k) ==
  [streamKey |-> k, ffmpegProcess |-> FALSE, isRecording |-> FALSE,
   transport |-> FALSE, consumer |-> FALSE, source |-> 0,
   proc |-> "none", tap |-> "none", cons |-> "none", timer |-> "none"]

NoRecorder == NewRecorder("")

EmptyObj == [streamers |-> {}, recorder |-> 0]

\* a cleanup() that closes the tap transport without testing `this.transport`
cleanupUnguarded(r) ==
  [r EXCEPT !.isRecording = FALSE,
            !.ffmpegProcess = FALSE,
            !.proc = IF r.ffmpegProcess /\ r.proc = "running" THEN "killed" ELSE r.proc,
            !.consumer = FALSE,
            !.cons = IF r.consumer THEN "closed" ELSE r.cons,
            !.source = IF r.consumer THEN 0 ELSE r.source,
            !.transport = FALSE,
            !.tap = "closed"]

\* private cleanup()
cleanup(r) ==
  [r EXCEPT !.isRecording = FALSE,
            !.ffmpegProcess = FALSE,
            !.proc = IF r.ffmpegProcess /\ r.proc = "running" THEN "killed" ELSE r.proc,
            !.consumer = FALSE,
            !.cons = IF r.consumer THEN "closed" ELSE r.cons,
            !.source = IF r.consumer THEN 0 ELSE r.source,
            !.transport = FALSE,
            !.tap = IF r.transport THEN "closed" ELSE r.tap]

\* startRecording(router, producers) of recorder r up to its first await:
\* it returns at once when already recording, throws (after cleanup()) when
\* `producers` holds no video producer, and otherwise goes on to
\* `await router.createPlainTransport` with videoProducers[0] as its source.
\* `first` is videoProducers[0].producer.id, 0 when there is none.
startRecordingEntry(r, first) ==
  IF r.isRecording THEN [out |-> "return", rec |-> r, source |-> 0]
  ELSE IF first = 0 THEN [out |-> "throw", rec |-> cleanup(r), source |-> 0]
  ELSE [out |-> "await", rec |-> r, source |-> first]

\* stopRecording(): logs and calls cleanup()
stopRecording(r) == cleanup(r)

isActive(r) == r.isRecording

\* ------------------------------------------------------------------- heap
\* Stream objects reachable from activeStreams or from a suspended handler.
LiveObjs(act, tasks) ==
  ({act[k] : k \in Keys} \cup {t.obj : t \in AllInFlight(tasks)}) \ {0}

\* A recorder with a callback still to come (timer, subprocess events) or with
\* an engine resource it has not closed.
Pending(r) ==
  \/ r.timer \in {"pending", "connecting", "resuming"}
  \/ r.proc \in {"running", "killed"}
  \/ r.tap \in {"open", "connected"}
  \/ r.cons \in {"paused", "resumed"}

LiveRecs(act, objs, hls, rs, tasks) ==
  ({objs[o].recorder : o \in LiveObjs(act, tasks)}
     \cup {hls[k] : k \in Keys}
     \cup {t.rec : t \in AllInFlight(tasks)}
     \cup {r \in DOMAIN rs : Pending(rs[r])}) \ {0}

\* The next state of the stream tables, the two heaps and the tasks, with
\* unreachable objects reclaimed.  A Map iterates in insertion order: a key
\* that a step adds to activeStreams (a step adds one at most) comes last.
Heap(act, objs, hls, rs, tasks) ==
  /\ activeStreams' = act
  /\ streamOrder' =
       LET kept == SelectSeq(streamOrder, LAMBDA k : act[k] # 0)
           new  == {k \in Keys : act[k] # 0 /\ activeStreams[k] = 0}
       IN  IF new = {} THEN kept ELSE Append(kept, CHOOSE k \in new : TRUE)
  /\ hlsRecorders' = hls
  /\ task' = tasks
  /\ streamObjs' = [o \in DOMAIN objs |->
                      IF o \in LiveObjs(act, tasks) THEN objs[o] ELSE EmptyObj]
  /\ recs' = [r \in DOMAIN rs |->
                IF r \in LiveRecs(act, objs, hls, rs, tasks) THEN rs[r] ELSE NoRecorder]

FreeObjs == (1..MaxStreamObjs) \ LiveObjs(activeStreams, task)

FreeRecs == (1..MaxRecorders) \ LiveRecs(activeStreams, streamObjs, hlsRecorders, recs, task)

\* the ids of the engine objects of type t that a watched run has open
OpenIds(t) == {x.id : x \in {y \in engine.open : y.type = t}}

\* producer ids some record, handler, recorder or open engine object still holds
UsedProducerIds ==
  ({producers[i].producerId : i \in 1..Len(producers)}
     \cup OpenIds("producer")
     \cup {consumers[i].producerId : i \in 1..Len(consumers)}
     \cup {t.n : t \in {u \in AllInFlight(task) : u.op \in {"consume", "startHLSStream"}}}
     \cup {recs[r].source : r \in 1..MaxRecorders}) \ {0}

UsedConsumerIds ==
  ({consumers[i].consumerId : i \in 1..Len(consumers)}
     \cup OpenIds("consumer")
     \cup {t.n : t \in {u \in AllInFlight(task) : u.op = "resumeConsumer"}}) \ {0}

Min(S) == CHOOSE x \in S : \A y \in S : x <= y

\* A run is logged from its start or not at all; the log holds the handlers
\* that ran to their end, in order, with the acknowledgements each gave, and
\* the number of streamLive events emitted, and is dropped when a handler
\* past the MaxTrace-th finishes.
NoHistory == [on |-> FALSE, ops |-> <<>>, acks |-> <<>>, live |-> 0]

Logging == [on |-> TRUE, ops |-> <<>>, acks |-> <<>>, live |-> 0]

Logged(h, l, r, e) ==
  LET n == Cardinality({i \in 1..Len(e) : e[i].type = "streamLive"})
  IN  IF ~h.on THEN h
      ELSE IF l.fin /\ l.sock # ""
        THEN IF Len(h.ops) = MaxTrace THEN NoHistory
             ELSE [on |-> TRUE, ops |-> Append(h.ops, <<l.sock, l.op>>),
                   acks |-> Append(h.acks, r), live |-> h.live + n]
        ELSE [h EXCEPT !.live = @ + n]

\* The engine objects of a run are watched from its start or not at all.  An
\* object is a WebRtcTransport (by role; id 0), a Producer or a Consumer, with
\* the socket whose handler created it, or the PlainTransport or the tap
\* Consumer of a recorder (by the recorder's place in the heap; no socket).
NoEngine == [on |-> FALSE, open |-> {}]

Watching == [on |-> TRUE, open |-> {}]

EngineObject(t, n, c) == [type |-> t, id |-> n, owner |-> c]

\* The engine objects a handler piece has created when it answers success:
\* transport.produce, transport.consume (createTransport(router) is named by
\* its handler, which knows the role).
Opened(l, r) ==
  IF ~l.fin \/ Len(r) = 0 \/ r[1].err THEN {}
  ELSE CASE l.op = "produce" -> {EngineObject("producer", r[1].data[1], l.sock)}
         [] l.op = "consume" -> {EngineObject("consumer", r[1].data[1], l.sock)}
         [] OTHER -> {}

\* the tap objects that the recorders rs have open: createPlainTransport and
\* transport.consume of startRecording open them, cleanup() closes them
TapObjects(rs) ==
  {EngineObject("plainTransport", r, "") : r \in {x \in DOMAIN rs : rs[x].tap \in {"open", "connected"}}}
    \cup {EngineObject("tapConsumer", r, "") : r \in {x \in DOMAIN rs : rs[x].cons \in {"paused", "resumed"}}}

\* No handler of socket-server.ts calls close() on a transport, producer or
\* consumer of a socket: a handler piece closes no object but those in gone,
\* the tap objects that a cleanup() it ran has closed.
Watched(g, made, gone) ==
  IF g.on THEN [g EXCEPT !.open = (@ \cup made) \ gone] ELSE g

\* ------------------------------------------------------------------- Init
\* the server after initSocketIO, before any connection
ServerStart ==
  /\ routerReady = FALSE
  /\ conn = [c \in Clients |-> "new"]
  /\ rtpCaps = [c \in Clients |-> <<>>]
  /\ transports = [c \in Clients |-> [r \in Roles |-> FALSE]]
  /\ producers = <<>>
  /\ consumers = <<>>
  /\ activeStreams = [k \in Keys |-> 0]
  /\ streamOrder = <<>>
  /\ streamObjs = [o \in 1..MaxStreamObjs |-> EmptyObj]
  /\ hlsRecorders = [k \in Keys |-> 0]
  /\ recs = [i \in 1..MaxRecorders |-> NoRecorder]
  /\ task = [c \in Clients |-> Idle]
  /\ last = NoOp
  /\ replies = <<>>
  /\ events = <<>>
  /\ reads = <<>>

Init == ServerStart /\ history = NoHistory /\ engine = NoEngine

\* what a handler piece of the signaling server gives out: its
\* acknowledgements and its events, and the engine objects it has created
\* and closed
OutMaking(l, r, e, made, gone) ==
  /\ last' = l
  /\ replies' = r
  /\ events' = e
  /\ history' = Logged(history, l, r, e)
  /\ engine' = Watched(engine, made, gone)
  /\ reads' = reads

Out(l, r, e) == OutMaking(l, r, e, Opened(l, r), {})

\* a piece whose cleanup() also closes the producer that the tap consumer
\* it closes was consuming
OutStreamClosingSource(l, r, e) ==
  OutMaking(l, r, e, TapObjects(recs') \ TapObjects(recs),
            (TapObjects(recs) \ TapObjects(recs'))
              \cup {x \in engine.open :
                      /\ x.type = "producer"
                      /\ \E i \in DOMAIN recs :
                           recs[i].source = x.id /\ recs'[i].source # x.id})

\* ... of a piece that has run parts of a recorder: the tap objects it has
\* opened and closed are those by which the recorders it leaves differ from
\* the recorders it found
OutStream(l, r, e) ==
  OutMaking(l, r, e, TapObjects(recs') \ TapObjects(recs), TapObjects(recs) \ TapObjects(recs'))

\* ------------------------------------------------------ server bootstrap
\* initMediasoup: worker and router created
InitMediasoup ==
  /\ ~routerReady
  /\ MacrotaskTurn
  /\ routerReady' = TRUE
  /\ Out(Ran("", "initMediasoup", TRUE), <<>>, <<>>)
  /\ UNCHANGED <<conn, rtpCaps, registryVars, streamVars, task>>

\* io.on("connection")
Connect(c) ==
  /\ conn[c] = "new"
  /\ MacrotaskTurn
  /\ conn' = [conn EXCEPT ![c] = "connected"]
  /\ Out(Ran(c, "connection", TRUE), <<>>, <<>>)
  /\ UNCHANGED <<routerReady, rtpCaps, registryVars, streamVars, task>>

\* socket.on("healthCheck"): logs, never calls the callback
HealthCheck(c) ==
  /\ conn[c] = "connected"
  /\ MessageTurn(c)
  /\ Out(Ran(c, "healthCheck", TRUE), <<>>, <<>>)
  /\ UNCHANGED <<routerReady, conn, rtpCaps, registryVars, streamVars, task>>

\* socket.on("rtpCapabilities")
RtpCapabilities(c) ==
  /\ conn[c] = "connected"
  /\ MessageTurn(c)
  /\ Out(Ran(c, "rtpCapabilities", TRUE),
         IF routerReady THEN <<Reply(c, "rtpCapabilities", FALSE, <<>>)>> ELSE <<>>,
         <<>>)
  /\ UNCHANGED <<routerReady, conn, rtpCaps, registryVars, streamVars, task>>

\* socket.on("setRtpCapabilities"): fire-and-forget
SetRtpCapabilities(c, caps) ==
  /\ conn[c] = "connected"
  /\ MessageTurn(c)
  /\ rtpCaps' = [rtpCaps EXCEPT ![c] = <<caps>>]
  /\ Out(Ran(c, "setRtpCapabilities", TRUE), <<>>, <<>>)
  /\ UNCHANGED <<routerReady, conn, registryVars, streamVars, task>>

\* ------------------------------------------------------------ transports
\* a handler that finds no transport under its key throws, and answers {error}
HasTransportAlways(c, role) == TRUE

\* transports.get(`${id}-${role}`) is defined
HasTransport(c, role) == transports[c][role]

\* socket.on("createProducerTransport") / socket.on("createConsumerTransport"),
\* up to `await createTransport(router)`.  createTransport is an async
\* function: with `router` undefined it returns a promise already rejected
\* (router.createWebRtcTransport throws inside it), and the handler suspends
\* all the same; its catch block answers one microtask later.
CreateTransportBegin(c, role) ==
  /\ conn[c] = "connected"
  /\ MessageTurn(c)
  /\ Room(c)
  /\ transports' = [transports EXCEPT ![c][role] = FALSE]
  /\ task' = Begun(c,
       IF routerReady
         THEN Suspended("createTransport", "await", role, 0, 0, 0)
         ELSE Suspended("createTransport", "rejected", role,
                        Cardinality({t \in InFlight(c) : t.pc = "rejected"}), 0, 0))
  /\ Out(Ran(c, "createTransport", FALSE), <<>>, <<>>)
  /\ UNCHANGED <<routerReady, conn, rtpCaps, producers, consumers, streamVars>>

\* ... the continuation: transports.set and callback(transportOption), or the
\* catch block.  The catch blocks due in one turn run in the order in which
\* their handlers suspended.
CreateTransportDone(c, ok) ==
  /\ \E t \in InFlight(c) :
       /\ t.op = "createTransport"
       /\ IF t.pc = "rejected"
            THEN ~ok /\ \A u \in InFlight(c) : u.pc = "rejected" => t.n <= u.n
            ELSE EngineTurn
       /\ transports' = IF ok THEN [transports EXCEPT ![c][t.a] = TRUE] ELSE transports
       /\ OutMaking(Ran(c, "createTransport", TRUE),
                    <<Reply(c, "createTransport", ~ok, <<>>)>>, <<>>,
                    IF ok THEN {EngineObject(t.a \o "Transport", 0, c)} ELSE {}, {})
       /\ task' = Ended(c, t)
  /\ UNCHANGED <<routerReady, conn, rtpCaps, producers, consumers, streamVars>>

\* socket.on("connectProducerTransport") / socket.on("connectConsumerTransport"),
\* up to `await transport.connect`
ConnectTransportBegin(c, role) ==
  /\ conn[c] = "connected"
  /\ MessageTurn(c)
  /\ HasTransport(c, role) => Room(c)
  /\ IF HasTransport(c, role)
       THEN /\ task' = Begun(c, Suspended("connectTransport", "await", role, 0, 0, 0))
            /\ Out(Ran(c, "connectTransport", FALSE), <<>>, <<>>)
       ELSE /\ task' = task
            /\ Out(Ran(c, "connectTransport", TRUE),
                   <<Reply(c, "connectTransport", TRUE, <<>>)>>, <<>>)
  /\ UNCHANGED <<routerReady, conn, rtpCaps, registryVars, streamVars>>

ConnectTransportDone(c, ok) ==
  /\ EngineTurn
  /\ \E t \in InFlight(c) : t.op = "connectTransport" /\ task' = Ended(c, t)
  /\ Out(Ran(c, "connectTransport", TRUE),
         <<Reply(c, "connectTransport", ~ok, <<>>)>>, <<>>)
  /\ UNCHANGED <<routerReady, conn, rtpCaps, registryVars, streamVars>>

\* ---------------------------------------------------------------- produce
\* socket.on("produce"), up to `await transport.produce`
ProduceBegin(c, kind) ==
  /\ conn[c] = "connected"
  /\ MessageTurn(c)
  /\ HasTransport(c, "producer") => Room(c)
  /\ producers' = IF MapHas(producers, c) THEN MapDelete(producers, c) ELSE producers
  /\ IF HasTransport(c, "producer")
       THEN /\ task' = Begun(c, Suspended("produce", "await", kind, 0, 0, 0))
            /\ Out(Ran(c, "produce", FALSE), <<>>, <<>>)
       ELSE /\ task' = task
            /\ Out(Ran(c, "produce", TRUE), <<Reply(c, "produce", TRUE, <<>>)>>, <<>>)
  /\ UNCHANGED <<routerReady, conn, rtpCaps, transports, consumers, streamVars>>

NewProducer(pid, c) ==
  [type |-> "newProducer", producerId |-> pid, socketId |-> c, to |-> Others(c)]

\* a continuation that emits newProducer and answers without storing the record
ProduceDoneEmitOnly(c, ok) ==
  /\ EngineTurn
  /\ \E t \in InFlight(c) : t.op = "produce" /\ task' = Ended(c, t)
  /\ IF ok
       THEN /\ (1..MaxProducers) \ UsedProducerIds # {}
            /\ LET pid == Min((1..MaxProducers) \ UsedProducerIds)
               IN  Out(Ran(c, "produce", TRUE),
                       <<Reply(c, "produce", FALSE, <<pid>>)>>,
                       <<NewProducer(pid, c)>>)
       ELSE Out(Ran(c, "produce", TRUE), <<Reply(c, "produce", TRUE, <<>>)>>, <<>>)
  /\ UNCHANGED <<routerReady, conn, rtpCaps, registryVars, streamVars>>

\* ... the continuation: emit newProducer, producers.set, callback({id})
ProduceDone(c, ok) ==
  /\ EngineTurn
  /\ \E t \in InFlight(c) :
       /\ t.op = "produce"
       /\ task' = Ended(c, t)
       /\ IF ok
            THEN /\ (1..MaxProducers) \ UsedProducerIds # {}
                 /\ LET pid == Min((1..MaxProducers) \ UsedProducerIds)
                    IN  /\ producers' = MapSet(producers,
                              [sock |-> c, producerId |-> pid, kind |-> t.a])
                        /\ Out(Ran(c, "produce", TRUE),
                               <<Reply(c, "produce", FALSE, <<pid>>)>>,
                               <<NewProducer(pid, c)>>)
            ELSE /\ UNCHANGED producers
                 /\ Out(Ran(c, "produce", TRUE), <<Reply(c, "produce", TRUE, <<>>)>>, <<>>)
  /\ UNCHANGED <<routerReady, conn, rtpCaps, transports, consumers, streamVars>>

\* ---------------------------------------------------------------- consume
\* a lookup that finds a video producer under every id
FindProducerAnywhere(pid) == <<[sock |-> "", producerId |-> pid, kind |-> "video"]>>

\* Array.from(producers.values()).find(p => p.producerId === producerId)
FindProducer(pid) ==
  IF \E i \in 1..Len(producers) : producers[i].producerId = pid
    THEN <<producers[CHOOSE i \in 1..Len(producers) :
                       /\ producers[i].producerId = pid
                       /\ \A j \in 1..(i - 1) : producers[j].producerId # pid]>>
    ELSE <<>>

\* a router that can consume nothing
canConsumeNothing(p, caps) == FALSE

\* router.canConsume({producerId, rtpCapabilities}): the declared receive
\* capabilities cover the producer's kind
canConsume(p, caps) == p.kind \in caps

\* checks that leave out router.canConsume
ConsumeAllowedUnchecked(c, pid) ==
  /\ transports[c]["consumer"]
  /\ FindProducer(pid) # <<>>
  /\ rtpCaps[c] # <<>>

\* the checks of socket.on("consume") before `await transport.consume`
ConsumeAllowed(c, pid) ==
  /\ HasTransport(c, "consumer")
  /\ FindProducer(pid) # <<>>
  /\ rtpCaps[c] # <<>>
  /\ canConsume(FindProducer(pid)[1], rtpCaps[c][1])

ConsumeBegin(c, pid) ==
  /\ conn[c] = "connected"
  /\ MessageTurn(c)
  /\ ConsumeAllowed(c, pid) => Room(c)
  /\ consumers' = IF MapHas(consumers, c) THEN MapDelete(consumers, c) ELSE consumers
  /\ IF ConsumeAllowed(c, pid)
       THEN /\ task' = Begun(c, Suspended("consume", "await",
                                          FindProducer(pid)[1].kind, pid, 0, 0))
            /\ Out(Ran(c, "consume", FALSE), <<>>, <<>>)
       ELSE /\ task' = task
            /\ Out(Ran(c, "consume", TRUE), <<Reply(c, "consume", TRUE, <<>>)>>, <<>>)
  /\ UNCHANGED <<routerReady, conn, rtpCaps, transports, producers, streamVars>>

\* ... the continuation: consumers.set and callback({id, producerId, kind, rtpParameters})
ConsumeDone(c, ok) ==
  /\ EngineTurn
  /\ \E t \in InFlight(c) :
       /\ t.op = "consume"
       /\ task' = Ended(c, t)
       /\ IF ok
            THEN /\ (1..MaxConsumers) \ UsedConsumerIds # {}
                 /\ LET cid == Min((1..MaxConsumers) \ UsedConsumerIds)
                    IN  /\ consumers' = MapSet(consumers,
                              [sock |-> c, consumerId |-> cid, producerId |-> t.n])
                        /\ Out(Ran(c, "consume", TRUE),
                               <<Reply(c, "consume", FALSE, <<cid, t.n, t.a>>)>>,
                               <<>>)
            ELSE /\ UNCHANGED consumers
                 /\ Out(Ran(c, "consume", TRUE), <<Reply(c, "consume", TRUE, <<>>)>>, <<>>)
  /\ UNCHANGED <<routerReady, conn, rtpCaps, transports, producers, streamVars>>

\* a lookup among every consumer open in the engine
FindConsumerInEngine(cid) == cid \in OpenIds("consumer")

\* Array.from(consumers.values()).find(data => data.consumer.id === consumerId)
\* is defined
FindConsumer(cid) == \E i \in 1..Len(consumers) : consumers[i].consumerId = cid

\* socket.on("resumeConsumer"), up to `await consumerData.consumer.resume()`
ResumeConsumerBegin(c, cid) ==
  /\ conn[c] = "connected"
  /\ MessageTurn(c)
  /\ FindConsumer(cid) => Room(c)
  /\ IF FindConsumer(cid)
       THEN /\ task' = Begun(c, Suspended("resumeConsumer", "await", "", cid, 0, 0))
            /\ Out(Ran(c, "resumeConsumer", FALSE), <<>>, <<>>)
       ELSE /\ task' = task
            /\ Out(Ran(c, "resumeConsumer", TRUE),
                   <<Reply(c, "resumeConsumer", TRUE, <<>>)>>, <<>>)
  /\ UNCHANGED <<routerReady, conn, rtpCaps, registryVars, streamVars>>

ResumeConsumerDone(c, ok) ==
  /\ EngineTurn
  /\ \E t \in InFlight(c) : t.op = "resumeConsumer" /\ task' = Ended(c, t)
  /\ Out(Ran(c, "resumeConsumer", TRUE),
         <<Reply(c, "resumeConsumer", ~ok, <<>>)>>, <<>>)
  /\ UNCHANGED <<routerReady, conn, rtpCaps, registryVars, streamVars>>

\* a list that leaves out the filter on the caller's own producer
ProducerListAll(c) ==
  [i \in 1..Len(producers) |->
     [producerId |-> producers[i].producerId, socketId |-> producers[i].sock]]

\* socket.on("getProducers")
ProducerList(c) ==
  LET cur == IF MapHas(producers, c) THEN MapGet(producers, c).producerId ELSE 0
      kept == SelectSeq(producers, LAMBDA e : e.producerId # cur)
  IN  [i \in 1..Len(kept) |-> [producerId |-> kept[i].producerId, socketId |-> kept[i].sock]]

GetProducers(c) ==
  /\ conn[c] = "connected"
  /\ MessageTurn(c)
  /\ Out(Ran(c, "getProducers", TRUE),
         <<Reply(c, "getProducers", FALSE, ProducerList(c))>>, <<>>)
  /\ UNCHANGED <<routerReady, conn, rtpCaps, registryVars, streamVars, task>>

\* ---------------------------------------------------------- HLS streams
\* Array.from(producers.values()).some(p => p.producer.kind === "video")
hasVideoProducers == \E i \in 1..Len(producers) : producers[i].kind = "video"

\* a choice that leaves out the filter on the kind: the first producer
FirstOfAnyKind(prods) == prods[1].producerId

\* videoProducers[0] of startRecording: the first video producer in Map order
FirstVideo(prods) ==
  prods[CHOOSE i \in 1..Len(prods) :
          /\ prods[i].kind = "video"
          /\ \A j \in 1..(i - 1) : prods[j].kind # "video"].producerId

\* videoProducers[0].producer.id for the registry prods, 0 when
\* videoProducers is empty
TapSource(prods) ==
  IF \E i \in 1..Len(prods) : prods[i].kind = "video" THEN FirstVideo(prods) ELSE 0

\* recorder?.getPlaylistUrl(): the url names the stream key; "" stands for undefined
PlaylistUrl(objs, rs, o) ==
  IF objs[o].recorder = 0 THEN "" ELSE rs[objs[o].recorder].streamKey

StreamLive(k, objs, rs, o) ==
  [type |-> "streamLive", streamId |-> k, playlistUrl |-> PlaylistUrl(objs, rs, o),
   streamers |-> objs[o].streamers, to |-> Connected]

StreamEnded(k, to) == [type |-> "streamEnded", streamId |-> k, to |-> to]

\* a test that leaves out `!stream.recorder`
NeedsRecorderAlways(objs, o) == hasVideoProducers

\* `hasVideoProducers && !stream.recorder`
NeedsRecorder(objs, o) == hasVideoProducers /\ objs[o].recorder = 0

\* the catch block around `await recorder.startRecording`: callback({error}); return
StartFailed(c, t) ==
  OutStream(Ran(c, "startHLSStream", TRUE), <<Reply(c, "startHLSStream", TRUE, <<>>)>>, <<>>)

\* socket.on("startHLSStream") up to `await recorder.startRecording(...)`,
\* which has run to `await router.createPlainTransport` (or has returned or
\* thrown before it), or to the handler's end when no recorder is to be started
StartHLSBegin(c, k) ==
  /\ conn[c] = "connected"
  /\ MessageTurn(c)
  /\ activeStreams[k] = 0 => FreeObjs # {}
  /\ LET o    == IF activeStreams[k] = 0 THEN Min(FreeObjs) ELSE activeStreams[k]
         act  == [activeStreams EXCEPT ![k] = o]
         objs == [streamObjs EXCEPT ![o].streamers = @ \cup {c}]
         e    == startRecordingEntry(NewRecorder(k), TapSource(producers))
         pc   == CASE e.out = "await"  -> "createPlainTransport"
                   [] e.out = "return" -> "returned"
                   [] e.out = "throw"  -> "threw"
     IN  IF NeedsRecorder(objs, o)
           THEN /\ FreeRecs # {}
                /\ Room(c)
                /\ Heap(act, objs, hlsRecorders,
                        [recs EXCEPT ![Min(FreeRecs)] = e.rec],
                        Begun(c, Suspended("startHLSStream", pc, k,
                                           e.source, o, Min(FreeRecs))))
                /\ OutStream(Ran(c, "startHLSStream", FALSE), <<>>, <<>>)
           ELSE /\ Heap(act, objs, hlsRecorders, recs, task)
                /\ OutStream(Ran(c, "startHLSStream", TRUE),
                       <<Reply(c, "startHLSStream", FALSE, <<k, PlaylistUrl(objs, recs, o)>>)>>,
                       <<StreamLive(k, objs, recs, o)>>)
  /\ UNCHANGED <<routerReady, conn, rtpCaps, registryVars>>

\* startRecording after `await router.createPlainTransport`: on success on to
\* `await this.transport.consume`; on failure cleanup() and rethrow
StartHLSPlainTransportDone(c, ok) ==
  /\ EngineTurn
  /\ \E t \in InFlight(c) :
       /\ t.op = "startHLSStream"
       /\ t.pc = "createPlainTransport"
       /\ IF ok
            THEN Heap(activeStreams, streamObjs, hlsRecorders,
                      [recs EXCEPT ![t.rec].transport = TRUE, ![t.rec].tap = "open"],
                      Moved(c, t, [t EXCEPT !.pc = "tapConsume"]))
            ELSE Heap(activeStreams, streamObjs, hlsRecorders,
                      [recs EXCEPT ![t.rec] = cleanup(recs[t.rec])],
                      Moved(c, t, [t EXCEPT !.pc = "threw"]))
  /\ OutStream(Ran(c, "startHLSStream", FALSE), <<>>, <<>>)
  /\ UNCHANGED <<routerReady, conn, rtpCaps, registryVars>>

\* what startRecording does after `await this.transport.consume({paused: true})`:
\* keep the consumer, spawn ffmpeg, install its handlers, arm the 3000 ms timer
Spawned(r, src) ==
  [r EXCEPT !.consumer = TRUE, !.cons = "paused", !.source = src,
            !.ffmpegProcess = TRUE, !.proc = "running", !.timer = "pending"]

\* startRecording after `await this.transport.consume`: it spawns and returns,
\* or cleanup() and rethrow.  The handler resumes one microtask later.
StartHLSTapConsumeDone(c, ok) ==
  /\ EngineTurn
  /\ \E t \in InFlight(c) :
       /\ t.op = "startHLSStream"
       /\ t.pc = "tapConsume"
       /\ IF ok
            THEN Heap(activeStreams, streamObjs, hlsRecorders,
                      [recs EXCEPT ![t.rec] = Spawned(recs[t.rec], t.n)],
                      Moved(c, t, [t EXCEPT !.pc = "returned"]))
            ELSE Heap(activeStreams, streamObjs, hlsRecorders,
                      [recs EXCEPT ![t.rec] = cleanup(recs[t.rec])],
                      Moved(c, t, [t EXCEPT !.pc = "threw"]))
  /\ OutStream(Ran(c, "startHLSStream", FALSE), <<>>, <<>>)
  /\ UNCHANGED <<routerReady, conn, rtpCaps, registryVars>>

\* startHLSStream after `await recorder.startRecording(router, producers)`:
\* the handler attaches the recorder to the stream object it holds and to
\* hlsRecorders, answers and emits streamLive; or its catch block answers {error}
StartHLSResumed(c) ==
  /\ \E t \in InFlight(c) :
       /\ t.op = "startHLSStream"
       /\ t.pc \in {"returned", "threw"}
       /\ IF t.pc = "returned"
            THEN LET objs == [streamObjs EXCEPT ![t.obj].recorder = t.rec]
                 IN  /\ Heap(activeStreams, objs, [hlsRecorders EXCEPT ![t.a] = t.rec],
                             recs, Ended(c, t))
                     /\ OutStream(Ran(c, "startHLSStream", TRUE),
                            <<Reply(c, "startHLSStream", FALSE,
                                    <<t.a, PlaylistUrl(objs, recs, t.obj)>>)>>,
                            <<StreamLive(t.a, objs, recs, t.obj)>>)
            ELSE /\ Heap(activeStreams, streamObjs, hlsRecorders, recs, Ended(c, t))
                 /\ StartFailed(c, t)
  /\ UNCHANGED <<routerReady, conn, rtpCaps, registryVars>>

\* recorder.startRecording(router, producers) called by itself on a new
\* recorder for key k, on a registry that holds no video producer (the
\* handler of startHLSStream tests hasVideoProducers before it calls the
\* method, and is its only caller in the server): the method throws before
\* its first await, after cleanup(), and the promise it returns is rejected.
StartRecording(k) ==
  /\ MacrotaskTurn
  /\ FreeRecs # {}
  /\ LET e == startRecordingEntry(NewRecorder(k), TapSource(producers))
     IN  /\ e.out = "throw"
         /\ Heap(activeStreams, streamObjs, hlsRecorders,
                 [recs EXCEPT ![Min(FreeRecs)] = e.rec], task)
         /\ OutStream(Ran("", "startRecording", TRUE),
                      <<Reply("", "startRecording", TRUE, <<>>)>>, <<>>)
  /\ UNCHANGED <<routerReady, conn, rtpCaps, registryVars>>

\* a test that leaves out `stream.streamers.size === 0`
LastOutAnySize(k, c) ==
  /\ activeStreams[k] # 0
  /\ streamObjs[activeStreams[k]].recorder # 0

\* The test of stopHLSStream and of the disconnect loop, once c is removed
\* from the group of key k: `stream.streamers.size === 0 && stream.recorder`
LastOut(k, c) ==
  /\ activeStreams[k] # 0
  /\ streamObjs[activeStreams[k]].streamers \ {c} = {}
  /\ streamObjs[activeStreams[k]].recorder # 0

\* The body shared by socket.on("stopHLSStream") and the loop of
\* socket.on("disconnect"), for the keys ks: remove c from each group; stop
\* the recorder of, and delete, each group that is then empty and has one.
LeaveObjs(ks, c) ==
  [o \in DOMAIN streamObjs |->
     IF \E k \in ks : activeStreams[k] = o
       THEN [streamObjs[o] EXCEPT !.streamers = @ \ {c}]
       ELSE streamObjs[o]]

\* a loop body that leaves out `stream.recorder.stopRecording()`
LeaveRecsNoStop(ks, c) == recs

LeaveRecs(ks, c) ==
  [r \in DOMAIN recs |->
     IF \E k \in ks : LastOut(k, c) /\ streamObjs[activeStreams[k]].recorder = r
       THEN stopRecording(recs[r])
       ELSE recs[r]]

LeaveMap(m, ks, c) ==
  [k \in Keys |-> IF k \in ks /\ LastOut(k, c) THEN 0 ELSE m[k]]

\* the streamEnded events of the body, in the order in which the loop over
\* activeStreams comes to the keys
EndedEvents(ks, c, to) ==
  LET ended == SelectSeq(streamOrder, LAMBDA k : k \in ks /\ LastOut(k, c))
  IN  [i \in 1..Len(ended) |-> StreamEnded(ended[i], to)]

\* the keys of ks whose group has c as a member
Members(ks, c) == {k \in ks : c \in streamObjs[activeStreams[k]].streamers}

\* socket.on("stopHLSStream")
StopHLS(c, k) ==
  /\ conn[c] = "connected"
  /\ MessageTurn(c)
  /\ LET ks == IF activeStreams[k] # 0 THEN {k} ELSE {}
     IN  /\ Heap(LeaveMap(activeStreams, ks, c), LeaveObjs(ks, c),
                 LeaveMap(hlsRecorders, ks, c), LeaveRecs(ks, c), task)
         /\ OutStream(Left(c, "stopHLSStream", Members(ks, c)),
                <<Reply(c, "stopHLSStream", FALSE, <<>>)>>, EndedEvents(ks, c, Connected))
  /\ UNCHANGED <<routerReady, conn, rtpCaps, registryVars>>

\* socket.on("getActiveStreams")
ActiveStreamList ==
  [i \in 1..Len(streamOrder) |->
     LET o == activeStreams[streamOrder[i]]
     IN  [streamId |-> streamOrder[i],
          playlistUrl |-> PlaylistUrl(streamObjs, recs, o),
          streamers |-> streamObjs[o].streamers,
          isLive |-> IF streamObjs[o].recorder = 0 THEN FALSE
                     ELSE isActive(recs[streamObjs[o].recorder])]]

GetActiveStreams(c) ==
  /\ conn[c] = "connected"
  /\ MessageTurn(c)
  /\ Out(Ran(c, "getActiveStreams", TRUE),
         <<Reply(c, "getActiveStreams", FALSE, ActiveStreamList)>>, <<>>)
  /\ UNCHANGED <<routerReady, conn, rtpCaps, registryVars, streamVars, task>>

\* the registry part of socket.on("disconnect")
DropClient(c) ==
  /\ producers' = MapDelete(producers, c)
  /\ transports' = [transports EXCEPT ![c] = [r \in Roles |-> FALSE]]
  /\ consumers' = MapDelete(consumers, c)

\* socket.on("disconnect"); the socket has left when the handler runs
Disconnect(c) ==
  /\ conn[c] = "connected"
  /\ MacrotaskTurn
  /\ conn' = [conn EXCEPT ![c] = "disconnected"]
  /\ DropClient(c)
  /\ LET ks == {k \in Keys : activeStreams[k] # 0 /\ c \in streamObjs[activeStreams[k]].streamers}
     IN  /\ Heap(LeaveMap(activeStreams, ks, c), LeaveObjs(ks, c),
                 LeaveMap(hlsRecorders, ks, c), LeaveRecs(ks, c), task)
         /\ OutStream(Left(c, "disconnect", Members(ks, c)), <<>>,
                EndedEvents(ks, c, Connected \ {c}))
  /\ UNCHANGED <<routerReady, rtpCaps>>

\* ------------------------------------------------- recorder callbacks
\* One callback of recorder r that leaves r as r2
RecorderStep(r, r2, what, fin) ==
  /\ Heap(activeStreams, streamObjs, hlsRecorders, [recs EXCEPT ![r] = r2], task)
  /\ OutStream(Ran("", what, fin), <<>>, <<>>)
  /\ UNCHANGED <<routerReady, conn, rtpCaps, registryVars>>

\* ffmpegProcess.stderr.on('data') with a progress line ("frame=... fps=..."):
\* sets isRecording when it is not set.  The listener stays on the process
\* object after cleanup() has sent SIGTERM.
FfmpegProgress(r) ==
  /\ MacrotaskTurn
  /\ recs[r].proc \in {"running", "killed"}
  /\ ~recs[r].isRecording
  /\ RecorderStep(r, [recs[r] EXCEPT !.isRecording = TRUE], "ffmpegStderr", TRUE)

\* ffmpegProcess.on('error'): cleanup(); the close event follows
FfmpegError(r) ==
  /\ MacrotaskTurn
  /\ recs[r].proc = "running"
  /\ RecorderStep(r, [cleanup(recs[r]) EXCEPT !.proc = "killed"], "ffmpegError", TRUE)

\* ffmpegProcess.on('close'): the process has ended, by itself or by SIGTERM
FfmpegClose(r) ==
  /\ MacrotaskTurn
  /\ recs[r].proc \in {"running", "killed"}
  /\ RecorderStep(r, [cleanup(recs[r]) EXCEPT !.proc = "closed"], "ffmpegClose", TRUE)

\* a setTimeout callback that issues the connect whether or not the recorder
\* still has its tap transport
TimerFireAnyway(r) ==
  /\ MacrotaskTurn
  /\ recs[r].timer = "pending"
  /\ RecorderStep(r, [recs[r] EXCEPT !.timer = "connecting"], "timer", FALSE)

\* the setTimeout callback of startRecording up to `await this.transport!.connect`;
\* with this.transport null the call throws and the catch block stops the recorder
TimerFire(r) ==
  /\ MacrotaskTurn
  /\ recs[r].timer = "pending"
  /\ RecorderStep(r,
       IF recs[r].transport
         THEN [recs[r] EXCEPT !.timer = "connecting"]
         ELSE [stopRecording(recs[r]) EXCEPT !.timer = "done"],
       "timer", ~recs[r].transport)

\* a callback that goes on to resume the consumer whether connect succeeded or not
TimerConnectDoneAnyway(r, ok) ==
  /\ EngineTurn
  /\ recs[r].timer = "connecting"
  /\ RecorderStep(r,
       IF recs[r].consumer
         THEN [recs[r] EXCEPT !.timer = "resuming",
                              !.tap = IF ok /\ @ = "open" THEN "connected" ELSE @]
         ELSE [stopRecording(recs[r]) EXCEPT !.timer = "done"],
       "timer", ~recs[r].consumer)

\* ... after connect: on to `await this.consumer!.resume()`, or the catch block
TimerConnectDone(r, ok) ==
  /\ EngineTurn
  /\ recs[r].timer = "connecting"
  /\ RecorderStep(r,
       IF ok /\ recs[r].consumer
         THEN [recs[r] EXCEPT !.timer = "resuming",
                              !.tap = IF @ = "open" THEN "connected" ELSE @]
         ELSE [stopRecording(recs[r]) EXCEPT !.timer = "done"],
       "timer", ~(ok /\ recs[r].consumer))

\* ... after resume: isRecording = true, or the catch block
TimerResumeDone(r, ok) ==
  /\ EngineTurn
  /\ recs[r].timer = "resuming"
  /\ RecorderStep(r,
       IF ok
         THEN [recs[r] EXCEPT !.timer = "done", !.isRecording = TRUE,
                              !.cons = IF @ = "paused" THEN "resumed" ELSE @]
         ELSE [stopRecording(recs[r]) EXCEPT !.timer = "done"],
       "timer", TRUE)

\* ------------------------------------------------------------ playback
\* app/api/hls/[...path]/route.ts.  A file name is the sequence of its
\* characters and a path the sequence of its names, so that the handler's
\* test, which compares strings, is computed on strings.
Dot == <<".">>

DotDot == <<".", ".">>

Public == <<"p", "u", "b", "l", "i", "c">>

Hls == <<"h", "l", "s">>

\* process.cwd(): some absolute directory
Cwd == << <<"w">> >>

\* names a request may carry as a segment of `path`
SegmentNames == {Dot, DotDot, Hls \o <<"2">>, <<"s", "1">>}

RECURSIVE SeqsUpTo(_, _)
SeqsUpTo(S, n) ==
  IF n = 0 THEN {<<>>}
  ELSE LET shorter == SeqsUpTo(S, n - 1)
       IN  shorter \cup {Append(q, x) : q \in shorter, x \in S}

\* path.normalize of an absolute path: "." is dropped, ".." drops the name
\* before it and is itself dropped at the root
RECURSIVE Normalize(_, _)
Normalize(done, rest) ==
  IF rest = <<>> THEN done
  ELSE LET x == Head(rest)
       IN  IF x = Dot THEN Normalize(done, Tail(rest))
           ELSE IF x = DotDot
             THEN Normalize(IF done = <<>> THEN <<>> ELSE SubSeq(done, 1, Len(done) - 1),
                            Tail(rest))
             ELSE Normalize(Append(done, x), Tail(rest))

\* the string of an absolute path: "/" before every name, "/" alone for the root
RECURSIVE Slashed(_)
Slashed(names) ==
  IF names = <<>> THEN <<>> ELSE <<"/">> \o Head(names) \o Slashed(Tail(names))

PathString(names) == IF names = <<>> THEN <<"/">> ELSE Slashed(names)

\* path.join(process.cwd(), 'public', 'hls', ...segs), as names and as string
Joined(segs) == Normalize(<<>>, Cwd \o <<Public, Hls>> \o segs)

\* String.prototype.startsWith
startsWith(s, t) == Len(s) >= Len(t) /\ SubSeq(s, 1, Len(t)) = t

\* filePath.startsWith(path.join(process.cwd(), 'public', 'hls'))
PassesCheck(segs) == startsWith(PathString(Joined(segs)), PathString(Joined(<<>>)))


\* the status of the response: 403 and 404 are answered by the handler; in
\* every other case the handler sets the headers and pipes a read stream
\* into the response, which carries 200 once something is written to it
Status(segs, found) ==
  IF ~PassesCheck(segs) THEN 403
  ELSE IF found = "nothing" THEN 404
  ELSE 200

\* handler(req, res) for an array `path`; what is found under the path is up
\* to the file system, where the output root is no file.  `found` is what
\* existsSync sees and `kept` whether it is still there at statSync: ffmpeg
\* runs with delete_segments and removes a file between the two calls, and
\* nothing removes a directory.  The handler answers 403 or 404 itself; when
\* the file is gone at statSync the call throws and the handler ends with no
\* response written and no read stream created; otherwise it returns with
\* the read stream created and piped, and nothing sent.
HlsRequest(segs, found, kept) ==
  LET status == Status(segs, found)
      piped  == status = 200 /\ kept
  IN  /\ MacrotaskTurn
      /\ found = "file" => Joined(segs) # Joined(<<>>)
      /\ ~kept => status = 200 /\ found = "file"
      /\ piped => Len(reads) < MaxReads
      /\ reads' = IF piped
                    THEN Append(reads, [segs |-> segs, found |-> found])
                    ELSE reads
      /\ last' = Ran("", "hls", ~piped)
      /\ replies' = IF status = 200 THEN <<>>
                    ELSE <<Reply("", "hls", TRUE, <<segs, status>>)>>
      /\ events' = <<>>
      /\ UNCHANGED <<routerReady, conn, rtpCaps, registryVars, streamVars, task,
                     history, engine>>

\* The read stream of an earlier request opens its file, in a later turn:
\* the file is written to the response, which is sent with 200.  When the
\* file is gone by then (ffmpeg runs with delete_segments), or the path is a
\* directory, the stream emits 'error'; it has no error listener, the error
\* is uncaught and the response is never sent.
HlsStreamed(i, gone) ==
  /\ MacrotaskTurn
  /\ i \in 1..Len(reads)
  /\ reads[i].found = "directory" => ~gone
  /\ reads' = SubSeq(reads, 1, i - 1) \o SubSeq(reads, i + 1, Len(reads))
  /\ last' = Ran("", "hls", TRUE)
  /\ replies' = IF reads[i].found = "file" /\ ~gone
                  THEN <<Reply("", "hls", FALSE, <<reads[i].segs, 200>>)>>
                  ELSE <<>>
  /\ events' = <<>>
  /\ UNCHANGED <<routerReady, conn, rtpCaps, registryVars, streamVars, task,
                 history, engine>>

\* ------------------------------------------------------------------- Next
\* Every handler and callback, for every socket.
Next ==
  \/ InitMediasoup
  \/ \E c \in Clients : Connect(c)
  \/ \E c \in Clients : Disconnect(c)
  \/ \E c \in Clients : HealthCheck(c)
  \/ \E c \in Clients : RtpCapabilities(c)
  \/ \E c \in Clients, caps \in CapsChoices : SetRtpCapabilities(c, caps)
  \/ \E c \in Clients, role \in Roles : CreateTransportBegin(c, role)
  \/ \E c \in Clients, ok \in BOOLEAN : CreateTransportDone(c, ok)
  \/ \E c \in Clients, role \in Roles : ConnectTransportBegin(c, role)
  \/ \E c \in Clients, ok \in BOOLEAN : ConnectTransportDone(c, ok)
  \/ \E c \in Clients, kind \in Kinds : ProduceBegin(c, kind)
  \/ \E c \in Clients, ok \in BOOLEAN : ProduceDone(c, ok)
  \/ \E c \in Clients, pid \in 1..MaxProducers : ConsumeBegin(c, pid)
  \/ \E c \in Clients, ok \in BOOLEAN : ConsumeDone(c, ok)
  \/ \E c \in Clients, cid \in 1..MaxConsumers : ResumeConsumerBegin(c, cid)
  \/ \E c \in Clients, ok \in BOOLEAN : ResumeConsumerDone(c, ok)
  \/ \E c \in Clients : GetProducers(c)
  \/ \E c \in Clients, k \in Keys : StartHLSBegin(c, k)
  \/ \E c \in Clients, ok \in BOOLEAN : StartHLSPlainTransportDone(c, ok)
  \/ \E c \in Clients, ok \in BOOLEAN : StartHLSTapConsumeDone(c, ok)
  \/ \E c \in Clients : StartHLSResumed(c)
  \/ \E k \in Keys : StartRecording(k)
  \/ \E c \in Clients, k \in Keys : StopHLS(c, k)
  \/ \E c \in Clients : GetActiveStreams(c)
  \/ \E r \in 1..MaxRecorders : FfmpegProgress(r)
  \/ \E r \in 1..MaxRecorders : FfmpegError(r)
  \/ \E r \in 1..MaxRecorders : FfmpegClose(r)
  \/ \E r \in 1..MaxRecorders : TimerFire(r)
  \/ \E r \in 1..MaxRecorders, ok \in BOOLEAN : TimerConnectDone(r, ok)
  \/ \E r \in 1..MaxRecorders, ok \in BOOLEAN : TimerResumeDone(r, ok)
  \/ \E segs \in SeqsUpTo(SegmentNames, MaxSegments),
          found \in {"nothing", "file", "directory"}, kept \in BOOLEAN :
       HlsRequest(segs, found, kept)
  \/ \E i \in 1..MaxReads, gone \in BOOLEAN : HlsStreamed(i, gone)

Spec == Init /\ [][Next]_vars

\* Playback requests alone.
NextPlayback ==
  \/ \E segs \in SeqsUpTo(SegmentNames, MaxSegments),
          found \in {"nothing", "file", "directory"}, kept \in BOOLEAN :
       HlsRequest(segs, found, kept)
  \/ \E i \in 1..MaxReads, gone \in BOOLEAN : HlsStreamed(i, gone)

SpecPlayback == Init /\ [][NextPlayback]_vars

\* The registry: both sockets open transports and produce, socket "b" also
\* declares its capabilities and consumes.  Socket "b" sends its requests
\* without waiting for the answers to the earlier ones; socket "a" opens its
\* transport and produces as the client's start-up does, each request sent
\* when the one before has been answered.
NextRegistry ==
  \/ InitMediasoup
  \/ \E c \in Clients : Connect(c)
  \/ \E c \in Clients : Disconnect(c)
  \/ \E caps \in CapsChoices : SetRtpCapabilities("b", caps)
  \/ Waits("a", {"createTransport", "produce"}) /\ CreateTransportBegin("a", "producer")
  \/ \E role \in Roles : CreateTransportBegin("b", role)
  \/ \E c \in Clients, ok \in BOOLEAN : CreateTransportDone(c, ok)
  \/ \E kind \in Kinds : Waits("a", {"createTransport", "produce"}) /\ ProduceBegin("a", kind)
  \/ \E kind \in Kinds : ProduceBegin("b", kind)
  \/ \E c \in Clients, ok \in BOOLEAN : ProduceDone(c, ok)
  \/ \E pid \in 1..MaxProducers : ConsumeBegin("b", pid)
  \/ \E ok \in BOOLEAN : ConsumeDone("b", ok)

SpecRegistry == Init /\ [][NextRegistry]_vars

\* The request/acknowledge surface: socket "a" produces, socket "b" consumes,
\* and both send the requests that only answer.  A socket opens its
\* transport and produces as the client's start-up does, each request sent
\* when the one before has been answered; connect, consume and resume
\* requests are sent at any time.
NextRpc ==
  \/ InitMediasoup
  \/ \E c \in Clients : Connect(c)
  \/ \E c \in Clients : Disconnect(c)
  \/ \E c \in Clients : HealthCheck(c)
  \/ \E c \in Clients : RtpCapabilities(c)
  \/ \E caps \in CapsChoices : SetRtpCapabilities("b", caps)
  \/ Waits("a", {"createTransport", "produce"}) /\ CreateTransportBegin("a", "producer")
  \/ Waits("b", {"createTransport", "produce"}) /\ CreateTransportBegin("b", "consumer")
  \/ \E c \in Clients, ok \in BOOLEAN : CreateTransportDone(c, ok)
  \/ ConnectTransportBegin("a", "producer")
  \/ ConnectTransportBegin("b", "consumer")
  \/ \E c \in Clients, ok \in BOOLEAN : ConnectTransportDone(c, ok)
  \/ \E kind \in Kinds : Waits("a", {"createTransport", "produce"}) /\ ProduceBegin("a", kind)
  \/ \E ok \in BOOLEAN : ProduceDone("a", ok)
  \/ \E pid \in 1..MaxProducers : ConsumeBegin("b", pid)
  \/ \E ok \in BOOLEAN : ConsumeDone("b", ok)
  \/ \E cid \in 1..MaxConsumers : ResumeConsumerBegin("b", cid)
  \/ \E ok \in BOOLEAN : ResumeConsumerDone("b", ok)
  \/ \E c \in Clients : GetProducers(c)
  \/ \E c \in Clients : GetActiveStreams(c)

SpecRpc == Init /\ [][NextRpc]_vars

\* Requests out of order: socket "a" alone declares its capabilities, opens
\* a transport of either role, connects it, produces and consumes, without
\* waiting for the answers to its earlier requests; the engine may fail any
\* of its calls.
NextOrder ==
  \/ InitMediasoup
  \/ Connect("a")
  \/ \E caps \in CapsChoices : SetRtpCapabilities("a", caps)
  \/ \E role \in Roles : CreateTransportBegin("a", role)
  \/ \E ok \in BOOLEAN : CreateTransportDone("a", ok)
  \/ \E role \in Roles : ConnectTransportBegin("a", role)
  \/ \E ok \in BOOLEAN : ConnectTransportDone("a", ok)
  \/ ProduceBegin("a", "video")
  \/ \E ok \in BOOLEAN : ProduceDone("a", ok)
  \/ \E pid \in 1..MaxProducers : ConsumeBegin("a", pid)
  \/ \E ok \in BOOLEAN : ConsumeDone("a", ok)

SpecOrder == Init /\ [][NextOrder]_vars

\* The producer directory: both sockets open a producing transport, produce
\* video and ask for the list of producers, without waiting for the answers
\* to their earlier requests.
NextProducers ==
  \/ InitMediasoup
  \/ \E c \in Clients : Connect(c)
  \/ \E c \in Clients : Disconnect(c)
  \/ \E c \in Clients : CreateTransportBegin(c, "producer")
  \/ \E c \in Clients, ok \in BOOLEAN : CreateTransportDone(c, ok)
  \/ \E c \in Clients : ProduceBegin(c, "video")
  \/ \E c \in Clients, ok \in BOOLEAN : ProduceDone(c, ok)
  \/ \E c \in Clients : GetProducers(c)

SpecProducers == Init /\ [][NextProducers]_vars

\* The stream groups.  The runs about them start where the router is up,
\* both sockets are connected and socket "a" has just been given its
\* producing transport (InitMediasoup, Connect("a"), Connect("b"),
\* CreateTransportBegin("a", "producer"), CreateTransportDone("a", TRUE) lead
\* there from Init).
StreamStart ==
  /\ routerReady = TRUE
  /\ conn = [c \in Clients |-> "connected"]
  /\ rtpCaps = [c \in Clients |-> <<>>]
  /\ transports = [c \in Clients |-> [r \in Roles |-> c = "a" /\ r = "producer"]]
  /\ producers = <<>>
  /\ consumers = <<>>
  /\ activeStreams = [k \in Keys |-> 0]
  /\ streamOrder = <<>>
  /\ streamObjs = [o \in 1..MaxStreamObjs |-> EmptyObj]
  /\ hlsRecorders = [k \in Keys |-> 0]
  /\ recs = [i \in 1..MaxRecorders |-> NoRecorder]
  /\ task = [c \in Clients |-> Idle]
  /\ last = Ran("a", "createTransport", TRUE)
  /\ replies = <<Reply("a", "createTransport", FALSE, <<>>)>>
  /\ events = <<>>
  /\ reads = <<>>

InitStream == StreamStart /\ history = NoHistory /\ engine = NoEngine

\* The run is logged from the start.
InitStreamLogged == StreamStart /\ history = Logging /\ engine = NoEngine

\* The engine objects of the run are watched from the start.
InitRelease == StreamStart /\ history = NoHistory /\ engine = Watching

\* Leaving.  Socket "a" produces its video track once.  Both sockets send
\* start requests for the first key, and socket "a" for the second key too,
\* without waiting for the answers to their earlier requests; both send stop
\* requests for either key and disconnect at any time.  Every engine call of
\* a start and of a recorder's timer succeeds, and the subprocess of a
\* recorder ends when it has been signalled.
NextLeave ==
  \/ \E c \in Clients : Disconnect(c)
  \/ producers = <<>> /\ Waits("a", {"createTransport", "produce"}) /\ ProduceBegin("a", "video")
  \/ ProduceDone("a", TRUE)
  \/ \E c \in Clients : StartHLSBegin(c, "s1")
  \/ StartHLSBegin("a", "s2")
  \/ \E c \in Clients : StartHLSPlainTransportDone(c, TRUE)
  \/ \E c \in Clients : StartHLSTapConsumeDone(c, TRUE)
  \/ \E c \in Clients : StartHLSResumed(c)
  \/ \E c \in Clients, k \in Keys : StopHLS(c, k)
  \/ \E r \in 1..MaxRecorders : recs[r].proc = "killed" /\ FfmpegClose(r)
  \/ \E r \in 1..MaxRecorders : TimerFire(r)
  \/ \E r \in 1..MaxRecorders : TimerConnectDone(r, TRUE)
  \/ \E r \in 1..MaxRecorders : TimerResumeDone(r, TRUE)

SpecLeave == InitStream /\ [][NextLeave]_vars

\* Stopping, one broadcast followed.  Socket "a" produces its video track
\* once.  Both sockets send start and stop requests for the key at any time,
\* without waiting for the answers to their earlier requests, and stay
\* connected.  Every engine call of a start and of a recorder's timer
\* succeeds, and the subprocess of a recorder ends when it has been signalled.
NextStop ==
  \/ producers = <<>> /\ Waits("a", {"createTransport", "produce"}) /\ ProduceBegin("a", "video")
  \/ ProduceDone("a", TRUE)
  \/ \E c \in Clients : StartHLSBegin(c, "s1")
  \/ \E c \in Clients : StartHLSPlainTransportDone(c, TRUE)
  \/ \E c \in Clients : StartHLSTapConsumeDone(c, TRUE)
  \/ \E c \in Clients : StartHLSResumed(c)
  \/ \E c \in Clients : StopHLS(c, "s1")
  \/ \E r \in 1..MaxRecorders : recs[r].proc = "killed" /\ FfmpegClose(r)
  \/ \E r \in 1..MaxRecorders : TimerFire(r)
  \/ \E r \in 1..MaxRecorders : TimerConnectDone(r, TRUE)
  \/ \E r \in 1..MaxRecorders : TimerResumeDone(r, TRUE)

SpecStop == InitStream /\ [][NextStop]_vars

SpecStreamLogged == InitStreamLogged /\ [][NextStop]_vars

\* The recorder, one broadcast followed: as before, but the engine may fail
\* the connect and the resume that a recorder's timer issues.
NextRecorder ==
  \/ producers = <<>> /\ Waits("a", {"createTransport", "produce"}) /\ ProduceBegin("a", "video")
  \/ ProduceDone("a", TRUE)
  \/ \E c \in Clients : StartHLSBegin(c, "s1")
  \/ \E c \in Clients : StartHLSPlainTransportDone(c, TRUE)
  \/ \E c \in Clients : StartHLSTapConsumeDone(c, TRUE)
  \/ \E c \in Clients : StartHLSResumed(c)
  \/ \E c \in Clients : StopHLS(c, "s1")
  \/ \E r \in 1..MaxRecorders : recs[r].proc = "killed" /\ FfmpegClose(r)
  \/ \E r \in 1..MaxRecorders : TimerFire(r)
  \/ \E r \in 1..MaxRecorders, ok \in BOOLEAN : TimerConnectDone(r, ok)
  \/ \E r \in 1..MaxRecorders, ok \in BOOLEAN : TimerResumeDone(r, ok)

SpecRecorder == InitStream /\ [][NextRecorder]_vars

SpecRelease == InitRelease /\ [][NextRecorder]_vars

\* The recorder and its subprocess, one broadcast followed.  Socket "a"
\* produces its video track once.  Both sockets send start and stop requests
\* for the key at any time, without waiting for the answers to their earlier
\* requests.  The engine may fail the calls of a start; the subprocess of a
\* recorder may write, fail or end at any time; the recorder's timer runs,
\* the engine answering its connect and resume with success.
NextGrace ==
  \/ producers = <<>> /\ Waits("a", {"createTransport", "produce"}) /\ ProduceBegin("a", "video")
  \/ ProduceDone("a", TRUE)
  \/ \E c \in Clients : StartHLSBegin(c, "s1")
  \/ \E c \in Clients, ok \in BOOLEAN : StartHLSPlainTransportDone(c, ok)
  \/ \E c \in Clients, ok \in BOOLEAN : StartHLSTapConsumeDone(c, ok)
  \/ \E c \in Clients : StartHLSResumed(c)
  \/ \E c \in Clients : StopHLS(c, "s1")
  \/ \E r \in 1..MaxRecorders : FfmpegProgress(r)
  \/ \E r \in 1..MaxRecorders : FfmpegError(r)
  \/ \E r \in 1..MaxRecorders : FfmpegClose(r)
  \/ \E r \in 1..MaxRecorders : TimerFire(r)
  \/ \E r \in 1..MaxRecorders : TimerConnectDone(r, TRUE)
  \/ \E r \in 1..MaxRecorders : TimerResumeDone(r, TRUE)

SpecGrace == InitStream /\ [][NextGrace]_vars

\* Recorder startup alone: socket "a" produces video, either socket starts
\* the broadcast, without waiting for the answers to its earlier requests,
\* and nobody stops it, so a recorder is only ever released by a failure: a
\* failed engine call, or the error or close of its subprocess.
NextStartup ==
  \/ ProduceBegin("a", "video")
  \/ \E ok \in BOOLEAN : ProduceDone("a", ok)
  \/ \E c \in Clients : StartHLSBegin(c, "s1")
  \/ \E c \in Clients, ok \in BOOLEAN : StartHLSPlainTransportDone(c, ok)
  \/ \E c \in Clients, ok \in BOOLEAN : StartHLSTapConsumeDone(c, ok)
  \/ \E c \in Clients : StartHLSResumed(c)
  \/ \E r \in 1..MaxRecorders : FfmpegError(r)
  \/ \E r \in 1..MaxRecorders : FfmpegClose(r)
  \/ \E r \in 1..MaxRecorders : TimerFire(r)
  \/ \E r \in 1..MaxRecorders, ok \in BOOLEAN : TimerConnectDone(r, ok)
  \/ \E r \in 1..MaxRecorders, ok \in BOOLEAN : TimerResumeDone(r, ok)

SpecStartup == InitStream /\ [][NextStartup]_vars

\* The tap source.  Each socket produces one track, audio or video (socket
\* "b" after opening a producing transport), in the awaited chain of its
\* client's start-up; socket "a" sends start requests for the key at any
\* time, and startRecording is also called by itself while no video
\* producer is registered.  Nobody stops the broadcast; the engine may fail
\* any call of the sockets' requests; the recorder's timer runs, the engine
\* answering its connect and resume with success.
NextTap ==
  \/ Waits("b", {"createTransport", "produce"}) /\ CreateTransportBegin("b", "producer")
  \/ \E ok \in BOOLEAN : CreateTransportDone("b", ok)
  \/ \E c \in Clients, kind \in Kinds :
       ~MapHas(producers, c) /\ Waits(c, {"createTransport", "produce"}) /\ ProduceBegin(c, kind)
  \/ \E c \in Clients, ok \in BOOLEAN : ProduceDone(c, ok)
  \/ StartHLSBegin("a", "s1")
  \/ \E ok \in BOOLEAN : StartHLSPlainTransportDone("a", ok)
  \/ \E ok \in BOOLEAN : StartHLSTapConsumeDone("a", ok)
  \/ StartHLSResumed("a")
  \/ StartRecording("s1")
  \/ \E r \in 1..MaxRecorders : TimerFire(r)
  \/ \E r \in 1..MaxRecorders : TimerConnectDone(r, TRUE)
  \/ \E r \in 1..MaxRecorders : TimerResumeDone(r, TRUE)

SpecTap == InitStream /\ [][NextTap]_vars

\* A producer and a viewer.  The run starts where the router is up, socket
\* "a" has been given its producing transport and socket "b" has declared
\* its receive capabilities and has just been given its consuming transport;
\* it is logged.  Socket "a" produces its video track once; socket "b"
\* lists, consumes and resumes without waiting for the answers to its
\* earlier requests; every engine call succeeds.
ViewerStart ==
  /\ routerReady = TRUE
  /\ conn = [c \in Clients |-> "connected"]
  /\ rtpCaps = [c \in Clients |-> IF c = "b" THEN <<{"video"}>> ELSE <<>>]
  /\ transports = [c \in Clients |-> [r \in Roles |->
                      (c = "a" /\ r = "producer") \/ (c = "b" /\ r = "consumer")]]
  /\ producers = <<>>
  /\ consumers = <<>>
  /\ activeStreams = [k \in Keys |-> 0]
  /\ streamOrder = <<>>
  /\ streamObjs = [o \in 1..MaxStreamObjs |-> EmptyObj]
  /\ hlsRecorders = [k \in Keys |-> 0]
  /\ recs = [i \in 1..MaxRecorders |-> NoRecorder]
  /\ task = [c \in Clients |-> Idle]
  /\ last = Ran("b", "createTransport", TRUE)
  /\ replies = <<Reply("b", "createTransport", FALSE, <<>>)>>
  /\ events = <<>>
  /\ reads = <<>>

NextViewer ==
  \/ producers = <<>> /\ Waits("a", {"createTransport", "produce"}) /\ ProduceBegin("a", "video")
  \/ ProduceDone("a", TRUE)
  \/ GetProducers("b")
  \/ \E pid \in 1..MaxProducers : ConsumeBegin("b", pid)
  \/ ConsumeDone("b", TRUE)
  \/ \E cid \in 1..MaxConsumers : ResumeConsumerBegin("b", cid)
  \/ ResumeConsumerDone("b", TRUE)

InitViewer == ViewerStart /\ history = Logging /\ engine = NoEngine

SpecViewer == InitViewer /\ [][NextViewer]_vars

\* Replaced producers, with the engine objects watched: socket "a" produces
\* video and the viewer opens a producing transport and produces too, each
\* such request sent when the socket's earlier ones have been answered; the
\* viewer lists and consumes without waiting for the answers; every engine
\* call succeeds.
InitReplace == ViewerStart /\ history = NoHistory /\ engine = Watching

NextReplace ==
  \/ Waits("a", {"createTransport", "produce"}) /\ ProduceBegin("a", "video")
  \/ ProduceDone("a", TRUE)
  \/ GetProducers("b")
  \/ \E pid \in 1..MaxProducers : ConsumeBegin("b", pid)
  \/ ConsumeDone("b", TRUE)
  \/ Waits("b", {"createTransport", "produce"}) /\ CreateTransportBegin("b", "producer")
  \/ CreateTransportDone("b", TRUE)
  \/ \E kind \in Kinds : Waits("b", {"createTransport", "produce"}) /\ ProduceBegin("b", kind)
  \/ ProduceDone("b", TRUE)

SpecReplace == InitReplace /\ [][NextReplace]_vars

\* Overlapping consumes, with the engine objects watched: socket "a"
\* produces; the viewer sends consume and resume requests without waiting
\* for the answers to the earlier ones.
NextSupersede ==
  \/ \E kind \in Kinds : ProduceBegin("a", kind)
  \/ ProduceDone("a", TRUE)
  \/ \E pid \in 1..MaxProducers : ConsumeBegin("b", pid)
  \/ \E ok \in BOOLEAN : ConsumeDone("b", ok)
  \/ \E cid \in 1..MaxConsumers : ResumeConsumerBegin("b", cid)
  \/ \E ok \in BOOLEAN : ResumeConsumerDone("b", ok)

SpecSupersede == InitReplace /\ [][NextSupersede]_vars

\* Consuming, with the engine objects watched: both sockets produce, audio
\* or video (socket "b" after opening a producing transport), each such
\* request sent when the socket's earlier ones have been answered, and the
\* engine answers them with success; socket "b" sends its consume requests
\* without waiting for the answers to the earlier ones.
NextConsume ==
  \/ \E kind \in Kinds : Waits("a", {"createTransport", "produce"}) /\ ProduceBegin("a", kind)
  \/ Waits("b", {"createTransport", "produce"}) /\ CreateTransportBegin("b", "producer")
  \/ CreateTransportDone("b", TRUE)
  \/ \E kind \in Kinds : Waits("b", {"createTransport", "produce"}) /\ ProduceBegin("b", kind)
  \/ \E c \in Clients : ProduceDone(c, TRUE)
  \/ \E pid \in 1..MaxProducers : ConsumeBegin("b", pid)
  \/ \E ok \in BOOLEAN : ConsumeDone("b", ok)

SpecConsume == InitReplace /\ [][NextConsume]_vars

\* The producer directory again, with the engine objects watched from the
\* start.
InitEngine == ServerStart /\ history = NoHistory /\ engine = Watching

SpecEngine == InitEngine /\ [][NextProducers]_vars

\* ============================================================ properties
\* C1: once a client's disconnect handler has run and none of its handlers
\* is still suspended at an engine call, none of transports, producers and
\* consumers holds an entry keyed by that client's id.
C1_NoEntryAfterDisconnect ==
  \A c \in Clients :
    (conn[c] = "disconnected" /\ task[c] = Idle) =>
      /\ \A role \in Roles : ~transports[c][role]
      /\ ~MapHas(producers, c)
      /\ ~MapHas(consumers, c)

\* C2: under any interleaving of startHLSStream requests for one stream key,
\* at most one recorder is started and alive for that key at a time.
C2_AtMostOneRecorderPerKey ==
  \A k \in Keys :
    Cardinality({r \in 1..MaxRecorders :
                   recs[r].streamKey = k /\ recs[r].proc = "running"}) <= 1

\* a recorder that holds something stopRecording() would release
Unstopped(r) ==
  r.ffmpegProcess \/ r.transport \/ r.consumer \/ r.isRecording

\* C3: no group of activeStreams has an empty member set together with an
\* attached recorder that has not been stopped.
C3_NoEmptyGroupWithRecorder ==
  \A k \in Keys :
    activeStreams[k] # 0 =>
      LET g == streamObjs[activeStreams[k]]
      IN  ~(g.streamers = {} /\ g.recorder # 0 /\ Unstopped(recs[g.recorder]))

\* every resource of the recorder is released: tap consumer and tap transport
\* closed, subprocess signalled or ended, isActive() false
Stopped(r) ==
  /\ ~isActive(r)
  /\ ~r.ffmpegProcess /\ r.proc # "running"
  /\ ~r.consumer /\ r.cons \notin {"paused", "resumed"}
  /\ ~r.transport /\ r.tap \notin {"open", "connected"}

\* the step is stopHLSStream by member c of the group of key k
StopByMember(c, k) ==
  /\ last'.op = "stopHLSStream"
  /\ last'.sock = c
  /\ k \in last'.left

\* C4: when the only remaining member of a group stops the broadcast, the
\* group's recorder is stopped (tap consumer and tap transport closed,
\* subprocess killed, isActive false) and the key is removed from
\* activeStreams and from hlsRecorders.  The group's recorder is the one
\* attached to it or, while a start request for the group is suspended in
\* startRecording, the one that request is starting.
C4_LastStopStopsRecorder ==
  [][\A c \in Clients, k \in Keys :
       LET o        == activeStreams[k]
           starting == {t.rec : t \in {u \in AllInFlight(task) :
                                          u.op = "startHLSStream" /\ u.obj = o}}
           ofGroup  == ({streamObjs[o].recorder} \cup starting) \ {0}
       IN  (/\ StopByMember(c, k)
            /\ streamObjs[o].streamers = {c}
            /\ ofGroup # {})
           => /\ \A r \in ofGroup : Stopped(recs'[r])
              /\ activeStreams'[k] = 0
              /\ hlsRecorders'[k] = 0]_vars

\* C5: when a member stops the broadcast while another member remains, the
\* recorder is not stopped, the group stays in activeStreams with the
\* remaining members, and no streamEnded event is emitted.
C5_NonLastStopKeepsRecorder ==
  [][\A c \in Clients, k \in Keys :
       (/\ StopByMember(c, k)
        /\ streamObjs[activeStreams[k]].streamers \ {c} # {})
       => /\ recs' = recs
          /\ hlsRecorders' = hlsRecorders
          /\ activeStreams' = activeStreams
          /\ streamObjs'[activeStreams[k]] =
               [streamObjs[activeStreams[k]] EXCEPT !.streamers = @ \ {c}]
          /\ events' = <<>>]_vars

\* a member has just stopped, the other member remains in the group and the
\* group's recorder still runs
C5_Witness ==
  \E c \in Clients, k \in Keys :
    /\ last = Left(c, "stopHLSStream", {k})
    /\ activeStreams[k] # 0
    /\ streamObjs[activeStreams[k]].streamers = Clients \ {c}
    /\ streamObjs[activeStreams[k]].recorder # 0
    /\ recs[streamObjs[activeStreams[k]].recorder].proc = "running"
    /\ events = <<>>

\* C6: startHLSStream for a key whose group has a recorder attached creates
\* and starts no recorder: the recorder heap, the group's recorder and the
\* hlsRecorders entry are unchanged, the handler does not suspend, and the
\* requester is only added to the member set.
C6_StartWithRecorderAddsMemberOnly ==
  [][\A c \in Clients, k \in Keys :
       (/\ activeStreams[k] # 0
        /\ streamObjs[activeStreams[k]].recorder # 0
        /\ last'.op = "startHLSStream" /\ last'.sock = c
        /\ StartHLSBegin(c, k))
       => /\ recs' = recs
          /\ hlsRecorders' = hlsRecorders
          /\ activeStreams' = activeStreams
          /\ streamObjs'[activeStreams[k]] =
               [streamObjs[activeStreams[k]] EXCEPT !.streamers = @ \cup {c}]
          /\ task' = task]_vars

\* socket b's start has just been answered for a group whose recorder was
\* already recording (a recorder just started by the request itself has not
\* yet set isRecording); both sockets are members
C6_Witness ==
  \E k \in Keys :
    /\ last = Ran("b", "startHLSStream", TRUE)
    /\ replies = <<Reply("b", "startHLSStream", FALSE, <<k, k>>)>>
    /\ activeStreams[k] # 0
    /\ streamObjs[activeStreams[k]].streamers = Clients
    /\ streamObjs[activeStreams[k]].recorder # 0
    /\ recs[streamObjs[activeStreams[k]].recorder].isRecording
    /\ recs[streamObjs[activeStreams[k]].recorder].timer = "done"

\* C7: every request/acknowledge message invokes its acknowledgement
\* callback exactly once, with a result or an error, on every path: when a
\* handler of such a message has run to its end, it has called the
\* requester's callback exactly once (health check and get capabilities
\* before the router exists included).
C7_EveryRequestAckedOnce ==
  (/\ last.fin
   /\ last.op \in {"healthCheck", "rtpCapabilities", "createTransport",
                   "connectTransport", "produce", "consume", "resumeConsumer",
                   "getProducers", "startHLSStream", "stopHLSStream",
                   "getActiveStreams"}) =>
    /\ Len(replies) = 1
    /\ replies[1].to = last.sock
    /\ replies[1].op = last.op

\* the step is the disconnect handler of c, which has a producers entry
DisconnectOfProducer(c) ==
  /\ last'.op = "disconnect"
  /\ last'.sock = c
  /\ MapHas(producers, c)

\* C8: after a client that owns a producer disconnects, no other client's
\* consumers entry refers to a consumer of that producer.
C8_NoDanglingConsumer ==
  [][\A c \in Clients :
       DisconnectOfProducer(c) =>
         \A i \in 1..Len(consumers') :
           consumers'[i].producerId # MapGet(producers, c).producerId]_vars

\* C9: when a client that has a producer in the registry disconnects, the
\* disconnect emits a producer-gone event carrying that producer's id to
\* the remaining clients.
C9_ProducerGoneEmitted ==
  [][\A c \in Clients :
       (DisconnectOfProducer(c) /\ Connected \ {c} # {}) =>
         \E i \in 1..Len(events') :
           /\ events'[i].type = "producerClosed"
           /\ events'[i].producerId = MapGet(producers, c).producerId
           /\ events'[i].to = Connected \ {c}]_vars

\* C10: a consume request for a producer that router.canConsume rejects for
\* the requester's declared capabilities is answered with an error, does
\* not reach transport.consume (the handler does not suspend), and leaves
\* no consumers entry for the requester.
C10_RejectedConsume ==
  [][\A c \in Clients, pid \in 1..MaxProducers :
       (/\ FindProducer(pid) # <<>>
        /\ rtpCaps[c] # <<>>
        /\ ~canConsume(FindProducer(pid)[1], rtpCaps[c][1])
        /\ ConsumeBegin(c, pid))
       => /\ replies' = <<Reply(c, "consume", TRUE, <<>>)>>
          /\ task' = task
          /\ ~MapHas(consumers', c)]_vars

\* a consume request has just been refused while the requester holds a
\* consumer transport, has declared video-only capabilities, and every
\* producer id names an audio producer
C10_Witness ==
  \E c \in Clients :
    /\ last = Ran(c, "consume", TRUE)
    /\ replies = <<Reply(c, "consume", TRUE, <<>>)>>
    /\ transports[c]["consumer"]
    /\ rtpCaps[c] = <<{"video"}>>
    /\ \A pid \in 1..MaxProducers :
         /\ FindProducer(pid) # <<>>
         /\ FindProducer(pid)[1].kind = "audio"
    /\ ~MapHas(consumers, c)

\* C11: out-of-order requests are answered with an error and create
\* nothing: produce without a producing transport leaves no producers entry
\* for the requester and announces no producer; consume without a consuming
\* transport, or before setRtpCapabilities, leaves no consumers entry for
\* the requester; connect-transport without the transport of that role
\* reaches no engine connect (the handler does not suspend).
C11_OutOfOrderRejected ==
  [][\A c \in Clients :
       /\ \A kind \in Kinds :
            (~transports[c]["producer"] /\ ProduceBegin(c, kind))
            => /\ replies' = <<Reply(c, "produce", TRUE, <<>>)>>
               /\ task' = task
               /\ ~MapHas(producers', c)
               /\ events' = <<>>
       /\ \A pid \in 1..MaxProducers :
            ((~transports[c]["consumer"] \/ rtpCaps[c] = <<>>) /\ ConsumeBegin(c, pid))
            => /\ replies' = <<Reply(c, "consume", TRUE, <<>>)>>
               /\ task' = task
               /\ ~MapHas(consumers', c)
       /\ \A role \in Roles :
            (~transports[c][role] /\ ConnectTransportBegin(c, role))
            => /\ replies' = <<Reply(c, "connectTransport", TRUE, <<>>)>>
               /\ task' = task
               /\ transports' = transports]_vars

\* a connected socket that has no producing transport has just been refused
\* a produce request (a transport is only removed by the socket's own
\* create-transport request or by its disconnect)
C11_Witness ==
  \E c \in Clients :
    /\ conn[c] = "connected"
    /\ ~transports[c]["producer"]
    /\ last = Ran(c, "produce", TRUE)
    /\ replies = <<Reply(c, "produce", TRUE, <<>>)>>
    /\ events = <<>>
    /\ ~MapHas(producers, c)

\* the producers entries of the sockets other than c, as (producer id, owner)
OthersProducers(c) ==
  {[producerId |-> producers[i].producerId, socketId |-> producers[i].sock] :
     i \in {j \in 1..Len(producers) : producers[j].sock # c}}

\* C12: the reply to getProducers sent to socket c lists no entry for c's
\* own registered producer and lists every producer registered by another
\* socket, once, paired with the id of the socket that owns it.
C12_ListExcludesOwn ==
  \A c \in Clients :
    last = Ran(c, "getProducers", TRUE) =>
      LET list == replies[1].data
      IN  /\ {list[i] : i \in 1..Len(list)} = OthersProducers(c)
          /\ Len(list) = Cardinality(OthersProducers(c))
          /\ \A i \in 1..Len(list) :
               ~(MapHas(producers, c) /\ list[i].producerId = MapGet(producers, c).producerId)

\* the list has just been sent to a socket that has a producer of its own
\* while the other socket has one too: one entry, the other socket's
C12_Witness ==
  \E c \in Clients, d \in Clients :
    /\ c # d
    /\ last = Ran(c, "getProducers", TRUE)
    /\ MapHas(producers, c) /\ MapHas(producers, d)
    /\ replies[1].data =
         <<[producerId |-> MapGet(producers, d).producerId, socketId |-> d]>>

\* C13: a produce request that succeeds emits exactly one newProducer event,
\* carrying the new producer's id and the producing socket's id, to every
\* connected socket other than the producing one and not to the producing
\* one; a produce request that fails, and a produce handler that has not
\* yet finished, emit no event.
C13_NewProducerToOthersOnce ==
  \A c \in Clients :
    (last.op = "produce" /\ last.sock = c) =>
      IF last.fin /\ ~replies[1].err
        THEN /\ Len(events) = 1
             /\ events[1].type = "newProducer"
             /\ events[1].producerId = replies[1].data[1]
             /\ events[1].socketId = c
             /\ events[1].to = Connected \ {c}
             /\ c \notin events[1].to
        ELSE events = <<>>

\* a produce request of a connected socket has just succeeded while the
\* other socket is connected: the one event went to the other socket only
C13_Witness ==
  \E c \in Clients, d \in Clients :
    /\ c # d
    /\ conn[c] = "connected" /\ conn[d] = "connected"
    /\ last = Ran(c, "produce", TRUE)
    /\ ~replies[1].err
    /\ events = <<[type |-> "newProducer", producerId |-> MapGet(producers, c).producerId,
                    socketId |-> c, to |-> {d}]>>

\* the recorder attached to the group of key k, 0 when there is none
GroupRecorder(k) ==
  IF activeStreams[k] = 0 THEN 0 ELSE streamObjs[activeStreams[k]].recorder

\* the subprocess of recorder r ended while the grace delay was still
\* running, and its close handler has released the recorder's resources
ExitedAfterLaunch(r) ==
  /\ recs[r].proc = "closed"
  /\ recs[r].timer = "pending"
  /\ Stopped(recs[r])

\* C14: when the recorder's subprocess has exited right after launch, a
\* following startHLSStream for the same key, with a video producer
\* present, starts a fresh recorder for the key instead of being held back
\* by the dead recorder still attached to the group.
C14_RetryAfterSubprocessExit ==
  [][\A c \in Clients, k \in Keys :
       (/\ StartHLSBegin(c, k)
        /\ hasVideoProducers
        /\ GroupRecorder(k) # 0
        /\ ExitedAfterLaunch(GroupRecorder(k)))
       => \E t \in BagToSet(task'[c]) :
            /\ task' = Begun(c, t)
            /\ t.op = "startHLSStream"
            /\ t.rec # GroupRecorder(k)
            /\ recs'[t.rec] = NewRecorder(k)]_vars

\* C15: in the run where a client starts a broadcast with no video producer
\* registered, then produces video, then starts the broadcast again for the
\* same key, the streamLive event is emitted exactly once over the run.
\* (The logged run is these three requests of c; the second start has just
\* been answered and the group's recorder runs.)
C15_StreamLiveOnce ==
  \A c \in Clients, k \in Keys :
    (/\ history.on
     /\ history.ops = <<<<c, "startHLSStream">>, <<c, "produce">>, <<c, "startHLSStream">>>>
     /\ \A d \in Clients : task[d] = Idle
     /\ last = Ran(c, "startHLSStream", TRUE)
     /\ replies = <<Reply(c, "startHLSStream", FALSE, <<k, k>>)>>
     /\ GroupRecorder(k) # 0
     /\ recs[GroupRecorder(k)].proc = "running")
    => history.live = 1

\* C16: when recorder.startRecording fails inside startHLSStream, the
\* requester gets an error reply and no streamLive event is emitted; the
\* group remains in activeStreams with the requester as member, and the
\* recorder that failed is attached neither to it nor to hlsRecorders.
\* (Stated of the step in which the catch block of the handler answers.)
C16_StartFailureKeepsGroup ==
  [][\A c \in Clients :
       \A t \in InFlight(c) :
         (StartHLSResumed(c) /\ t.pc = "threw" /\ task' = Ended(c, t))
         => /\ replies' = <<Reply(c, "startHLSStream", TRUE, <<>>)>>
            /\ events' = <<>>
            /\ activeStreams'[t.a] # 0
            /\ c \in streamObjs'[activeStreams'[t.a]].streamers
            /\ streamObjs'[activeStreams'[t.a]].recorder # t.rec
            /\ hlsRecorders'[t.a] # t.rec]_vars

\* the stream tables, with the keys of the streamEnded events emitted so far
StreamTables ==
  [act |-> activeStreams, objs |-> streamObjs, hls |-> hlsRecorders, rs |-> recs,
   ended |-> <<>>]

\* the body of socket.on("stopHLSStream") for socket c and key k, run on the
\* stream tables st
StopOn(st, c, k) ==
  IF st.act[k] = 0 THEN st
  ELSE LET o    == st.act[k]
           rest == st.objs[o].streamers \ {c}
           objs == [st.objs EXCEPT ![o].streamers = rest]
           r    == st.objs[o].recorder
       IN  IF rest = {} /\ r # 0
             THEN [act   |-> [st.act EXCEPT ![k] = 0],
                   objs  |-> objs,
                   hls   |-> [st.hls EXCEPT ![k] = 0],
                   rs    |-> [st.rs EXCEPT ![r] = stopRecording(@)],
                   ended |-> Append(st.ended, k)]
             ELSE [st EXCEPT !.objs = objs]

\* stopHLSStream of c for each key of the sequence ks, one after the other
RECURSIVE StopAll(_, _, _)
StopAll(st, c, ks) ==
  IF ks = <<>> THEN st
  ELSE StopAll(StopOn(st, c, Head(ks)), c, Tail(ks))

\* the step leaves the stream tables as st has them (objects nothing refers
\* to any more aside) and emits streamEnded for the keys st.ended
LeavesTables(st) ==
  /\ activeStreams' = st.act
  /\ hlsRecorders' = st.hls
  /\ \A k \in Keys : st.act[k] # 0 => streamObjs'[st.act[k]] = st.objs[st.act[k]]
  /\ recs' = [r \in 1..MaxRecorders |->
               IF r \in LiveRecs(st.act, st.objs, st.hls, st.rs, task)
                 THEN st.rs[r] ELSE NoRecorder]
  /\ Len(events') = Len(st.ended)
  /\ \A i \in 1..Len(st.ended) :
       events'[i].type = "streamEnded" /\ events'[i].streamId = st.ended[i]

\* C17: the effect of a socket's disconnect on activeStreams, hlsRecorders,
\* the recorders and the streamEnded events emitted equals the effect of
\* that socket's stopHLSStream for every key whose member set contains it
\* one after the other in the order in which the disconnect loop comes to
\* them (and a stopHLSStream by a member has the effect of the stop body).
C17_DisconnectIsStopOfAll ==
  [][\A c \in Clients :
       /\ (last'.op = "disconnect" /\ last'.sock = c) =>
            LeavesTables(StopAll(StreamTables, c,
              SelectSeq(streamOrder,
                        LAMBDA k : c \in streamObjs[activeStreams[k]].streamers)))
       /\ \A k \in Keys :
            StopByMember(c, k) => LeavesTables(StopOn(StreamTables, c, k))]_vars

\* the last member of two recording groups has just disconnected: both
\* groups are gone from both maps, the subprocesses of their recorders have
\* been signalled and streamEnded went out for the two keys, in the order
\* in which the groups were created
C17_Witness ==
  \E c \in Clients, k1, k2 \in Keys, r1, r2 \in 1..MaxRecorders :
    /\ k1 # k2 /\ r1 # r2
    /\ last = Left(c, "disconnect", {k1, k2})
    /\ events = <<StreamEnded(k1, Connected), StreamEnded(k2, Connected)>>
    /\ activeStreams = [k \in Keys |-> 0] /\ hlsRecorders = [k \in Keys |-> 0]
    /\ recs[r1].streamKey = k1 /\ recs[r2].streamKey = k2
    /\ recs[r1].proc = "killed" /\ recs[r1].tap = "closed" /\ recs[r1].cons = "closed"
    /\ recs[r2].proc = "killed" /\ recs[r2].tap = "closed" /\ recs[r2].cons = "closed"

\* the group of key k is recording: it has a recorder attached whose
\* subprocess runs
Recording(k) ==
  /\ GroupRecorder(k) # 0
  /\ recs[GroupRecorder(k)].proc = "running"

\* C18: whenever a group leaves the recording state, because its last
\* member stopped or disconnected or because the recorder's subprocess
\* crashed or closed, the step emits a streamEnded event for its key.
C18_StreamEndedOnLeavingRecording ==
  [][\A k \in Keys :
       (Recording(k) /\ ~Recording(k)') =>
         \E i \in 1..Len(events') :
           events'[i].type = "streamEnded" /\ events'[i].streamId = k]_vars

\* C19: in the startup of every recorder the tap consumer is created
\* paused; the grace delay starts with the spawn of the subprocess; the tap
\* transport's connect is issued only when that delay has run out, hence
\* after the spawn; the consumer's resume is issued only when connect has
\* completed successfully, and the consumer becomes resumed only by that
\* resume; when connect fails the consumer is not resumed.
C19_StartupOrder ==
  [][\A r \in 1..MaxRecorders :
       /\ (recs[r].cons = "none" /\ recs'[r].cons # "none") => recs'[r].cons = "paused"
       /\ (recs[r].timer # "pending" /\ recs'[r].timer = "pending")
            => recs[r].proc = "none" /\ recs'[r].proc = "running"
       /\ (recs[r].timer # "connecting" /\ recs'[r].timer = "connecting")
            => /\ recs[r].timer = "pending"
               /\ recs[r].proc # "none"
               /\ recs[r].tap = "open" /\ recs[r].cons = "paused"
       /\ (recs[r].tap # "connected" /\ recs'[r].tap = "connected")
            => recs[r].timer = "connecting"
       /\ (recs[r].timer # "resuming" /\ recs'[r].timer = "resuming")
            => recs[r].timer = "connecting" /\ recs'[r].tap = "connected"
       /\ (recs[r].cons # "resumed" /\ recs'[r].cons = "resumed")
            => recs[r].timer = "resuming" /\ recs[r].tap = "connected"
       /\ (recs[r].timer = "connecting" /\ recs'[r].timer = "done")
            => recs'[r].cons # "resumed" /\ recs'[r].tap # "connected"
       /\ recs[r].timer = "done" => recs'[r].timer \in {"done", "none"}]_vars

\* a recorder has gone through its whole startup: subprocess running, tap
\* transport connected, consumer resumed, delayed callback finished
C19_Witness ==
  \E r \in 1..MaxRecorders :
    /\ recs[r].proc = "running"
    /\ recs[r].tap = "connected"
    /\ recs[r].cons = "resumed"
    /\ recs[r].timer = "done"
    /\ recs[r].isRecording

\* C20: a failure during recorder startup leaves the recorder with isActive
\* false, its tap consumer and tap transport closed and its subprocess
\* killed if it was alive: a recorder released during its startup is, and
\* after the step that follows still is, stopped.
C20_StartupFailureLeavesStopped ==
  [][\A r \in 1..MaxRecorders :
       (/\ recs[r].tap = "closed"
        /\ recs[r].timer \in {"pending", "connecting", "resuming"})
       => Stopped(recs[r]) /\ Stopped(recs'[r])]_vars

\* C21: stopRecording is idempotent.  Stopping any recorder leaves it with
\* nothing to release, and stopping it once more leaves it as the first stop
\* did; on a recorder that holds nothing (no subprocess, tap consumer or tap
\* transport, isRecording false) stopRecording closes nothing, kills nothing
\* and changes no field.  So when the last member stops the broadcast of a
\* group whose recorder was already released, the recorder is left as it was.
C21_StopIdempotent ==
  [][ /\ \A r \in 1..MaxRecorders :
          LET s == stopRecording(recs[r])
          IN  /\ ~Unstopped(s)
              /\ stopRecording(s) = s
              /\ ~Unstopped(recs[r]) => s = recs[r]
      /\ \A c \in Clients, k \in Keys :
           (/\ StopByMember(c, k)
            /\ LastOut(k, c)
            /\ ~Unstopped(recs[GroupRecorder(k)]))
           => recs'[GroupRecorder(k)] \in {recs[GroupRecorder(k)], NoRecorder}]_vars

\* the last member has just stopped the broadcast of a group whose recorder
\* had been released before, by the catch block of its timer, and whose
\* subprocess had ended since: the group is gone and streamEnded is out, and
\* no recorder is left that the stop could have signalled
C21_Witness ==
  \E c \in Clients, k \in Keys :
    /\ last = Left(c, "stopHLSStream", {k})
    /\ events = <<StreamEnded(k, Connected)>>
    /\ activeStreams[k] = 0
    /\ recs = [r \in 1..MaxRecorders |-> NoRecorder]

\* recorder r holds an engine resource or a subprocess it has not released
HoldsResources(r) == recs[r].transport \/ recs[r].consumer \/ recs[r].ffmpegProcess

\* C22: every recorder that holds live resources (tap transport, tap
\* consumer or subprocess) or is registered in hlsRecorders, and whose
\* startRecording call has returned, is the recorder attached to the group
\* that activeStreams holds under the recorder's stream key.
C22_RecorderInsideGroup ==
  \A r \in 1..MaxRecorders :
    (/\ \A t \in AllInFlight(task) : ~(t.op = "startHLSStream" /\ t.rec = r)
     /\ HoldsResources(r) \/ \E k \in Keys : hlsRecorders[k] = r)
    => /\ recs[r].streamKey \in Keys
       /\ GroupRecorder(recs[r].streamKey) = r
       /\ \A k \in Keys : hlsRecorders[k] = r => k = recs[r].streamKey

\* C23: once a client's disconnect handler has run and none of its handlers
\* is still suspended, every engine object the client owned (producing
\* transport, consuming transport, producer, consumer) has been closed in
\* the engine: none it created is still open.
C23_DisconnectClosesEngineObjects ==
  \A c \in Clients :
    (conn[c] = "disconnected" /\ task[c] = Idle) =>
      \A x \in engine.open : x.owner # c

\* the logged run so far is: a produced video and was given producer id p
ProducedVideo(p) ==
  /\ history.on
  /\ Len(history.ops) >= 1
  /\ history.ops[1] = <<"a", "produce">>
  /\ history.acks[1] = <<Reply("a", "produce", FALSE, <<p>>)>>
  /\ MapHas(producers, "a") /\ MapGet(producers, "a").kind = "video"

\* ... then b asked for the list of producers
ThenListed(p) ==
  /\ ProducedVideo(p)
  /\ Len(history.ops) >= 2
  /\ history.ops[2] = <<"b", "getProducers">>

\* ... then b asked to consume p and was given consumer id n
ThenConsumed(p, n) ==
  /\ ThenListed(p)
  /\ Len(history.ops) = 3
  /\ history.ops[3] = <<"b", "consume">>
  /\ history.acks[3] = <<Reply("b", "consume", FALSE, <<n, p, "video">>)>>


\* C24: in the run where a (holding a producing transport) produces video
\* producer p and b (holding a consuming transport, video capabilities
\* declared) then asks for the producers, to consume p and to resume the
\* consumer it is given, each engine call succeeding, b is answered with
\* exactly <<{producerId: p, socketId: a}>>, then with the consumer data for
\* p, then with success: no request of the run is refused.  (The run is these
\* four requests, each sent when the one before has been answered.)
C24_ProduceListConsumeResume ==
  [][\A p \in 1..MaxProducers :
       /\ (ProducedVideo(p) /\ Len(history.ops) = 1 /\ task = [d \in Clients |-> Idle] /\ GetProducers("b"))
            => replies' = <<Reply("b", "getProducers", FALSE,
                                  <<[producerId |-> p, socketId |-> "a"]>>)>>
       /\ (ThenListed(p) /\ Len(history.ops) = 2 /\ task = [d \in Clients |-> Idle] /\ ConsumeBegin("b", p))
            => /\ replies' = <<>>
               /\ task' = Begun("b", Suspended("consume", "await", "video", p, 0, 0))
       /\ \A t \in InFlight("b") :
            (/\ ThenListed(p) /\ Len(history.ops) = 2 /\ t.n = p
             /\ task' = Ended("b", t) /\ task' = [d \in Clients |-> Idle] /\ ConsumeDone("b", TRUE))
            => /\ Len(replies') = 1
               /\ ~replies'[1].err
               /\ replies'[1].to = "b"
               /\ replies'[1].data[2] = p /\ replies'[1].data[3] = "video"
               /\ MapGet(consumers', "b").consumerId = replies'[1].data[1]
       /\ \A n \in 1..MaxConsumers :
            /\ (ThenConsumed(p, n) /\ task = [d \in Clients |-> Idle] /\ ResumeConsumerBegin("b", n))
                 => /\ replies' = <<>>
                    /\ task' = Begun("b", Suspended("resumeConsumer", "await", "", n, 0, 0))
            /\ \A t \in InFlight("b") :
                 (/\ ThenConsumed(p, n) /\ t.n = n
                  /\ task' = Ended("b", t) /\ task' = [d \in Clients |-> Idle] /\ ResumeConsumerDone("b", TRUE))
                 => replies' = <<Reply("b", "resumeConsumer", FALSE, <<>>)>>]_vars

\* the run has just ended: the log holds the four requests in order with
\* their answers, the list of one producer, the consumer data and the success
C24_Witness ==
  \E p \in 1..MaxProducers, n \in 1..MaxConsumers :
    /\ history.ops = <<<<"a", "produce">>, <<"b", "getProducers">>,
                       <<"b", "consume">>, <<"b", "resumeConsumer">>>>
    /\ history.acks =
         << <<Reply("a", "produce", FALSE, <<p>>)>>,
            <<Reply("b", "getProducers", FALSE, <<[producerId |-> p, socketId |-> "a"]>>)>>,
            <<Reply("b", "consume", FALSE, <<n, p, "video">>)>>,
            <<Reply("b", "resumeConsumer", FALSE, <<>>)>> >>
    /\ last = Ran("b", "resumeConsumer", TRUE)

\* the step ends handler op of socket c, still connected, with a success answer
Succeeds(c, op) ==
  /\ conn'[c] = "connected"
  /\ last'.sock = c /\ last'.op = op /\ last'.fin
  /\ Len(replies') = 1
  /\ ~replies'[1].err

\* C25: when a request is answered with success, its state changes are in
\* place at that moment: the transport is in transports when createTransport
\* answers, the producer is in producers when produce answers, the consumer
\* is in consumers when consume answers, and when startHLSStream answers the
\* requester is a member of the group that activeStreams holds under the key
\* and the recorder the request has started is attached to that group.
C25_ReplyAfterEffects ==
  [][\A c \in Clients :
       /\ \A t \in InFlight(c) :
            (Succeeds(c, "createTransport") /\ task' = Ended(c, t)) => transports'[c][t.a]
       /\ Succeeds(c, "produce")
            => /\ MapHas(producers', c)
               /\ MapGet(producers', c).producerId = replies'[1].data[1]
       /\ Succeeds(c, "consume")
            => /\ MapHas(consumers', c)
               /\ MapGet(consumers', c).consumerId = replies'[1].data[1]
       /\ Succeeds(c, "startHLSStream")
            => LET k == replies'[1].data[1]
               IN  /\ activeStreams'[k] # 0
                   /\ c \in streamObjs'[activeStreams'[k]].streamers
                   /\ \A t \in InFlight(c) :
                        task' = Ended(c, t) =>
                          /\ streamObjs'[activeStreams'[k]].recorder = t.rec
                          /\ hlsRecorders'[k] = t.rec]_vars

\* the names of the path lie in the directory public/hls of the working
\* directory: the path begins with the names of that directory
InsideHls(names) ==
  /\ Len(names) >= Len(Cwd) + 2
  /\ SubSeq(names, 1, Len(Cwd) + 2) = Cwd \o <<Public, Hls>>

\* C26: for every sequence of path segments of a playback request, the
\* handler streams a file only if the resolved path lies inside public/hls,
\* and answers 403 to every request whose resolved path lies outside it.
C26_PlaybackStaysInsideRoot ==
  (last.op = "hls" /\ Len(replies) = 1) =>
    LET names == Joined(replies[1].data[1])
        code  == replies[1].data[2]
    IN  /\ code = 200 => InsideHls(names)
        /\ ~InsideHls(names) => code = 403

\* ids of the producers that are open in the engine and have no record in
\* the producers map: replaced by a later produce of their owner
Replaced ==
  {x.id : x \in {y \in engine.open :
                   /\ y.type = "producer"
                   /\ \A i \in 1..Len(producers) : producers[i].producerId # y.id}}

\* C27: the producers map holds at most one record per client, and a record
\* it holds is that of the client's most recently completed successful
\* produce (a record appears or changes only when a produce of its client
\* succeeds, and is then the producer just created); a producer whose record
\* was replaced is not closed in the engine, is not listed by getProducers,
\* and a consume request for its id is answered with an error.
C27_ProducerRecordReplaced ==
  [][ /\ \A c \in Clients :
          /\ Cardinality({i \in 1..Len(producers') : producers'[i].sock = c}) <= 1
          /\ MapHas(producers', c) =>
               IF Succeeds(c, "produce")
                 THEN MapGet(producers', c).producerId = replies'[1].data[1]
                 ELSE MapHas(producers, c) /\ MapGet(producers', c) = MapGet(producers, c)
          /\ Succeeds(c, "produce") =>
               \A x \in engine.open :
                 (x.type = "producer" /\ x.owner = c) => x.id \in Replaced'
      /\ engine.open \subseteq engine'.open
      /\ \A d \in Clients :
           /\ GetProducers(d) =>
                \A i \in 1..Len(replies'[1].data) :
                  replies'[1].data[i].producerId \notin Replaced
           /\ \A pid \in 1..MaxProducers :
                (pid \in Replaced /\ ConsumeBegin(d, pid))
                => /\ replies' = <<Reply(d, "consume", TRUE, <<>>)>>
                   /\ task' = task]_vars

\* socket a has produced twice: both producers are open in the engine, the
\* map holds the second, a video producer, alone; socket b, which holds a
\* consuming transport and has declared video capabilities, has just been
\* refused a consume request, which can only have been for the first
C27_Witness ==
  \E p \in 1..MaxProducers, q \in 1..MaxProducers :
    /\ p # q
    /\ producers = <<[sock |-> "a", producerId |-> q, kind |-> "video"]>>
    /\ {EngineObject("producer", p, "a"), EngineObject("producer", q, "a")}
         \subseteq engine.open
    /\ Replaced = {p}
    /\ transports["b"]["consumer"] /\ rtpCaps["b"] = <<{"video"}>>
    /\ last = Ran("b", "consume", TRUE)
    /\ replies = <<Reply("b", "consume", TRUE, <<>>)>>

\* ids of the consumers socket c has created that are open in the engine
\* and are not the consumer of c's record in the consumers map
Superseded(c) ==
  {x.id : x \in {y \in engine.open :
                   /\ y.type = "consumer" /\ y.owner = c
                   /\ ~(MapHas(consumers, c) /\ MapGet(consumers, c).consumerId = y.id)}}

\* C28: the consumers map holds at most one record per client, that of the
\* client's most recent consume: when a client that has consumed one
\* producer consumes another, the record of the first consumer is replaced,
\* a resumeConsumer request for the first consumer is answered with an
\* error without reaching the engine, and a resumeConsumer request of the
\* client for one of its consumers reaches consumer.resume() only for the
\* consumer of its record.
C28_OnlyLatestConsumerResumes ==
  [][\A c \in Clients :
       /\ Cardinality({i \in 1..Len(consumers') : consumers'[i].sock = c}) <= 1
       /\ Succeeds(c, "consume") =>
            /\ MapGet(consumers', c).consumerId = replies'[1].data[1]
            /\ MapGet(consumers', c).producerId = replies'[1].data[2]
            /\ \A x \in engine.open :
                 (x.type = "consumer" /\ x.owner = c) => x.id \in Superseded(c)'
       /\ \A n \in 1..MaxConsumers :
            /\ (n \in Superseded(c) /\ ResumeConsumerBegin(c, n))
                 => /\ replies' = <<Reply(c, "resumeConsumer", TRUE, <<>>)>>
                    /\ task' = task
            /\ (EngineObject("consumer", n, c) \in engine.open /\ task' # task
                  /\ ResumeConsumerBegin(c, n))
                 => MapGet(consumers, c).consumerId = n]_vars

\* socket b has consumed a producer and then another (of which the registry
\* still holds the record); both consumers are open in the engine, the map
\* holds the second alone, and b has just been answered with an error to
\* resumeConsumer
C28_Witness ==
  \E q \in 1..MaxProducers, m \in 1..MaxConsumers, n \in 1..MaxConsumers :
    /\ m # n
    /\ FindProducer(q) # <<>>
    /\ EngineObject("consumer", n, "b") \in engine.open
    /\ consumers = <<[sock |-> "b", consumerId |-> n, producerId |-> q]>>
    /\ Superseded("b") = {m}
    /\ last = Ran("b", "resumeConsumer", TRUE)
    /\ replies = <<Reply("b", "resumeConsumer", TRUE, <<>>)>>

\* producer id n is that of the first video producer of the registry, in
\* the order of its entries
IsFirstVideo(n) ==
  \E i \in 1..Len(producers) :
    /\ producers[i].kind = "video"
    /\ producers[i].producerId = n
    /\ \A j \in 1..(i - 1) : producers[j].kind # "video"

\* C29: startRecording binds the tap consumer to the first video producer
\* of the registry in iteration order, audio producers skipped: the producer
\* it goes on with is the first video producer at the time it runs, and
\* the tap consumer it then creates, paused, consumes that producer.  Run on a
\* registry without video producer it throws, with no tap transport created
\* and no subprocess spawned.
C29_TapSourceIsFirstVideo ==
  [][ /\ \A c \in Clients, k \in Keys :
          /\ \A t \in BagToSet(task'[c]) :
               (/\ last' = Ran(c, "startHLSStream", FALSE)
                /\ task' = Begun(c, t)
                /\ StartHLSBegin(c, k)) => IsFirstVideo(t.n)
          /\ LET e == startRecordingEntry(NewRecorder(k), TapSource(producers))
             IN  IF hasVideoProducers
                   THEN e.out = "await" /\ IsFirstVideo(e.source)
                   ELSE /\ e.out = "throw"
                        /\ ~e.rec.transport /\ e.rec.tap = "none"
                        /\ ~e.rec.ffmpegProcess /\ e.rec.proc = "none"
                        /\ ~e.rec.consumer /\ e.rec.cons = "none"
      /\ last'.op = "startRecording"
           => /\ ~hasVideoProducers
              /\ replies' = <<Reply("", "startRecording", TRUE, <<>>)>>
              /\ recs' = recs
              /\ task' = task
      /\ \A c \in Clients :
           \A t \in InFlight(c) :
             (/\ StartHLSTapConsumeDone(c, TRUE)
              /\ task' = Moved(c, t, [t EXCEPT !.pc = "returned"]))
             => /\ recs'[t.rec].source = t.n
                /\ recs'[t.rec].cons = "paused"]_vars

\* the registry holds an audio producer of socket a and then a video
\* producer of socket b, and the tap consumer of a recorder just started
\* consumes the second
C29_Witness ==
  \E p \in 1..MaxProducers, q \in 1..MaxProducers, r \in 1..MaxRecorders :
    /\ producers = <<[sock |-> "a", producerId |-> p, kind |-> "audio"],
                     [sock |-> "b", producerId |-> q, kind |-> "video"]>>
    /\ last = Ran("a", "startHLSStream", TRUE)
    /\ recs[r].source = q
    /\ recs[r].cons = "paused" /\ recs[r].proc = "running"

C31_FailedRequestKeepsRegistry ==
  [][\A c \in Clients :
       (/\ task' = task
        /\ last'.sock = c
        /\ last'.op \in {"produce", "consume"}
        /\ replies' = <<Reply(c, last'.op, TRUE, <<>>)>>)
       => /\ transports' = transports
          /\ producers' = producers
          /\ consumers' = consumers]_vars

\* C32: once a recorder has been stopped or cleaned up, isActive() stays
\* false: no callback that runs afterwards (the grace-delay timer, a stderr
\* or close callback of the subprocess) sets the recording flag again.
C32_StoppedStaysInactive ==
  [][\A r \in 1..MaxRecorders :
       (/\ recs[r].proc \in {"killed", "closed"} \/ recs[r].tap = "closed"
        /\ ~recs[r].ffmpegProcess /\ ~recs[r].consumer /\ ~recs[r].transport
        /\ ~isActive(recs[r]))
       => ~isActive(recs'[r])]_vars

\* C33: when the timer of a recorder that was stopped during the grace delay
\* fires, the callback issues no connect on the tap transport and no resume
\* on the tap consumer, ends in its catch block in the same turn, and leaves
\* the recorder stopped.
C33_TimerAfterStopDoesNothing ==
  [][\A r \in 1..MaxRecorders :
       (/\ recs[r].timer = "pending"
        /\ recs[r].proc # "none"
        /\ recs[r].tap = "closed"
        /\ ~recs[r].transport /\ ~recs[r].consumer /\ ~recs[r].ffmpegProcess
        /\ TimerFire(r))
       => /\ recs'[r].timer \notin {"connecting", "resuming"}
          /\ recs'[r].tap # "connected"
          /\ recs'[r].cons # "resumed"
          /\ last' = Ran("", "timer", TRUE)
          /\ Stopped(recs'[r])]_vars

\* the timer of a recorder that the last member had stopped, its subprocess
\* signalled and not yet ended, has just fired
C33_Witness ==
  \E r \in 1..MaxRecorders :
    /\ last = Ran("", "timer", TRUE)
    /\ recs[r].timer = "done"
    /\ recs[r].proc = "killed"
    /\ recs[r].tap = "closed" /\ recs[r].cons = "closed"
    /\ Stopped(recs[r])
    /\ \A k \in Keys : GroupRecorder(k) # r

\* the step before emitted to socket c the newProducer event of producer pid
\* of socket s: c's next request is its reaction to the event
JustTold(c, pid, s) ==
  \E i \in 1..Len(events) : events[i] = NewProducer(pid, s) /\ c \in events[i].to

\* C34: the produce handler emits newProducer and stores the producer record
\* in one turn, so the state in which the event is out already holds the
\* record, and a peer's consume or getProducers handled next runs with the
\* record in the producers map: the consume finds the producer and the list
\* names it.
C34_RecordStoredWithEvent ==
  [][ /\ \A i \in 1..Len(events') :
          events'[i].type = "newProducer"
          => /\ MapHas(producers', events'[i].socketId)
             /\ MapGet(producers', events'[i].socketId).producerId = events'[i].producerId
      /\ \A c, s \in Clients, pid \in 1..MaxProducers :
          /\ (JustTold(c, pid, s) /\ ConsumeBegin(c, pid))
               => /\ FindProducer(pid) # <<>>
                  /\ FindProducer(pid)[1].sock = s
                  /\ (HasTransport(c, "consumer") /\ rtpCaps[c] # <<>>
                        /\ canConsume(FindProducer(pid)[1], rtpCaps[c][1]))
                       => /\ replies' = <<>>
                          /\ task' = Begun(c, Suspended("consume", "await",
                                                        FindProducer(pid)[1].kind, pid, 0, 0))
          /\ (JustTold(c, pid, s) /\ GetProducers(c))
               => \E j \in 1..Len(replies'[1].data) :
                    replies'[1].data[j] = [producerId |-> pid, socketId |-> s]]_vars

\* socket b's consume of producer p has been taken up right after the turn
\* in which socket a's produce handler emitted the event and stored p
C34_Witness ==
  \E p \in 1..MaxProducers :
    /\ history.ops = <<<<"a", "produce">>>>
    /\ history.acks = << <<Reply("a", "produce", FALSE, <<p>>)>> >>
    /\ task["a"] = Idle
    /\ last = Ran("b", "consume", FALSE)
    /\ \E t \in InFlight("b") : t.op = "consume" /\ t.n = p
    /\ FindProducer(p) # <<>> /\ FindProducer(p)[1].sock = "a"

\* C35: stopHLSStream for a key without a group, or from a socket that is
\* not a member of a group that has members, is answered {success: true},
\* changes neither activeStreams nor hlsRecorders nor any group or recorder,
\* and emits no streamEnded.
C35_StopByOutsiderChangesNothing ==
  [][\A c \in Clients, k \in Keys :
       (/\ \/ activeStreams[k] = 0
           \/ /\ activeStreams[k] # 0
              /\ c \notin streamObjs[activeStreams[k]].streamers
              /\ streamObjs[activeStreams[k]].streamers # {}
        /\ last'.op = "stopHLSStream" /\ last'.sock = c
        /\ StopHLS(c, k))
       => /\ replies' = <<Reply(c, "stopHLSStream", FALSE, <<>>)>>
          /\ events' = <<>>
          /\ activeStreams' = activeStreams
          /\ hlsRecorders' = hlsRecorders
          /\ streamObjs' = streamObjs
          /\ recs' = recs]_vars

\* socket a, member of no group, has just been answered on its stop request
\* for a key whose group has socket b as its only member and a recorder
\* whose subprocess runs
C35_Witness ==
  \E k \in Keys :
    /\ last = Left("a", "stopHLSStream", {})
    /\ replies = <<Reply("a", "stopHLSStream", FALSE, <<>>)>>
    /\ activeStreams[k] # 0
    /\ streamObjs[activeStreams[k]].streamers = {"b"}
    /\ GroupRecorder(k) # 0
    /\ recs[GroupRecorder(k)].proc = "running"

\* C36: every group stored in activeStreams, and so every entry that
\* getActiveStreams lists, has at least one member.
C36_NoEmptyGroup ==
  \A k \in Keys :
    activeStreams[k] # 0 => streamObjs[activeStreams[k]].streamers # {}

====
